---- MODULE Spec2Model ----
(***************************************************************************)
(* A model of the prompt-manager synchronization core: the markdown vault  *)
(* (src-tauri/src/vault.rs), the SQLite cache (src-tauri/src/db) and the   *)
(* commands that keep the two consistent (src-tauri/src/commands.rs).      *)
(*                                                                         *)
(* Strings whose characters the code inspects (paths, tags, titles,        *)
(* prompt content, file bodies) are sequences of one-token characters; the *)
(* tokens BT, TL and PR stand for the fence runs and the word prompt.      *)
(***************************************************************************)
EXTENDS Integers, Sequences, FiniteSets, TLC

\* --------------------------------------------------------------------------
\* Strings
\* --------------------------------------------------------------------------

\* Option::None for a string-valued option, and SQL NULL.
NULL == <<"NULL">>

NL == "\n"
\* The character run of three backticks.
BT == "BT3"
\* The character run of three tildes.
TL == "TL3"
PR == "prompt"

\* char::is_whitespace on the characters of the model.
IsWs(c) == c \in {" ", NL}

RECURSIVE TrimStart(_)
\* str::trim_start
TrimStart(s) ==
    IF s # <<>> /\ IsWs(Head(s)) THEN TrimStart(Tail(s)) ELSE s

RECURSIVE TrimEnd(_)
\* str::trim_end
TrimEnd(s) ==
    IF s # <<>> /\ IsWs(s[Len(s)]) THEN TrimEnd(SubSeq(s, 1, Len(s) - 1)) ELSE s

\* str::trim
Trim(s) == TrimEnd(TrimStart(s))

\* str::starts_with
StartsWith(s, pre) ==
    Len(pre) <= Len(s) /\ SubSeq(s, 1, Len(pre)) = pre

\* str::ends_with
EndsWith(s, suf) ==
    Len(suf) <= Len(s) /\ SubSeq(s, Len(s) - Len(suf) + 1, Len(s)) = suf

\* str::contains
Contains(s, sub) ==
    \E i \in 1..(Len(s) - Len(sub) + 1) : SubSeq(s, i, i + Len(sub) - 1) = sub

RECURSIVE TrimStartMatches(_, _)
\* str::trim_start_matches(char)
TrimStartMatches(s, c) ==
    IF s # <<>> /\ Head(s) = c THEN TrimStartMatches(Tail(s), c) ELSE s

RECURSIVE SplitNL(_)
\* The pieces of s between newline characters (str::split on the newline).
SplitNL(s) ==
    IF \A i \in 1..Len(s) : s[i] # NL
    THEN <<s>>
    ELSE LET i == CHOOSE k \in 1..Len(s) :
                      s[k] = NL /\ \A j \in 1..(k - 1) : s[j] # NL
         IN  <<SubSeq(s, 1, i - 1)>> \o SplitNL(SubSeq(s, i + 1, Len(s)))

\* str::lines: split at newlines; a final empty piece is not a line.
Lines(s) ==
    LET parts == SplitNL(s)
    IN  IF parts[Len(parts)] = <<>> THEN SubSeq(parts, 1, Len(parts) - 1) ELSE parts

RECURSIVE Join(_, _)
\* [String]::join(sep)
Join(ls, sep) ==
    IF ls = <<>> THEN <<>>
    ELSE IF Len(ls) = 1 THEN ls[1]
    ELSE ls[1] \o sep \o Join(Tail(ls), sep)

\* --------------------------------------------------------------------------
\* Errors and results
\* --------------------------------------------------------------------------

NoError == [type |-> "none", kind |-> "none", msg |-> "none"]

\* vault::VaultError variants.
VaultError(kind, msg) == [type |-> "VaultError", kind |-> kind, msg |-> msg]

\* config::ConfigError variants.
ConfigError(kind, msg) == [type |-> "ConfigError", kind |-> kind, msg |-> msg]

\* models::DbError variants; msg is the text the variant carries.
DbError(kind, msg) == [type |-> "DbError", kind |-> kind, msg |-> msg]

\* --------------------------------------------------------------------------
\* Path Normalizer (vault.rs)
\* --------------------------------------------------------------------------

DotMd == <<".", "m", "d">>

\* Variant of normalize_relative_path: ".." is let through.
normalize_relative_path_allows_traversal(path) ==
    LET trimmed == Trim(path)
    IN  IF trimmed = <<>>
        THEN [ok |-> FALSE, val |-> <<>>, err |-> VaultError("InvalidFilePath", "empty path")]
        ELSE IF StartsWith(trimmed, <<"/">>) \/ StartsWith(trimmed, <<"\\">>)
        THEN [ok |-> FALSE, val |-> <<>>, err |-> VaultError("InvalidFilePath", "absolute path")]
        ELSE IF Contains(trimmed, <<"/">>) \/ Contains(trimmed, <<"\\">>)
        THEN [ok |-> FALSE, val |-> <<>>,
              err |-> VaultError("InvalidFilePath", "subfolders are not supported")]
        ELSE [ok |-> TRUE,
              val |-> IF EndsWith(trimmed, DotMd) THEN trimmed ELSE trimmed \o DotMd,
              err |-> NoError]

normalize_relative_path(path) ==
    LET trimmed == Trim(path)
    IN  IF trimmed = <<>>
        THEN [ok |-> FALSE, val |-> <<>>, err |-> VaultError("InvalidFilePath", "empty path")]
        ELSE IF Contains(trimmed, <<".", ".">>)
        THEN [ok |-> FALSE, val |-> <<>>, err |-> VaultError("InvalidFilePath", "path traversal")]
        ELSE IF StartsWith(trimmed, <<"/">>) \/ StartsWith(trimmed, <<"\\">>)
        THEN [ok |-> FALSE, val |-> <<>>, err |-> VaultError("InvalidFilePath", "absolute path")]
        ELSE IF Contains(trimmed, <<"/">>) \/ Contains(trimmed, <<"\\">>)
        THEN [ok |-> FALSE, val |-> <<>>,
              err |-> VaultError("InvalidFilePath", "subfolders are not supported")]
        ELSE [ok |-> TRUE,
              val |-> IF EndsWith(trimmed, DotMd) THEN trimmed ELSE trimmed \o DotMd,
              err |-> NoError]

\* --------------------------------------------------------------------------
\* Frontmatter Codec (vault.rs)
\* --------------------------------------------------------------------------

\* serde_yaml::Value: a string, a sequence of strings, or any other value.
YamlString(s) == [kind |-> "String", str |-> s, seq |-> <<>>]
YamlSequence(items) == [kind |-> "Sequence", str |-> <<>>, seq |-> items]
YamlOther == [kind |-> "Other", str |-> <<>>, seq |-> <<>>]

\* serde_yaml::Mapping, as a function from key to value.
EmptyMapping == <<>>
MapInsert(map, key, value) ==
    [k \in (DOMAIN map) \cup {key} |-> IF k = key THEN value ELSE map[k]]
MapRemove(map, key) ==
    [k \in (DOMAIN map) \ {key} |-> map[k]]

\* A line opens the prompt block.
IsOpeningFence(line) ==
    LET trimmed == TrimStart(line)
    IN  StartsWith(trimmed, <<BT, PR>>) \/ StartsWith(trimmed, <<TL, PR>>)

\* The fence run an opening line remembers.
FenceOf(line) == IF StartsWith(TrimStart(line), <<TL>>) THEN TL ELSE BT

RECURSIVE ExtractLoop(_, _, _, _)
\* The loop of extract_code_block_content over the remaining lines.
ExtractLoop(lines, in_block, fence, content_lines) ==
    IF lines = <<>> THEN content_lines
    ELSE LET line == Head(lines)
         IN  IF IsOpeningFence(line)
             THEN ExtractLoop(Tail(lines), TRUE, FenceOf(line), content_lines)
             ELSE IF in_block /\ StartsWith(TrimStart(line), <<fence>>)
             THEN content_lines
             ELSE IF in_block
             THEN ExtractLoop(Tail(lines), in_block, fence, Append(content_lines, line))
             ELSE ExtractLoop(Tail(lines), in_block, fence, content_lines)

\* The initial fence "" of the code is a prefix of every line, but it is only
\* tested once in_block is set, and then fence has been assigned.
extract_code_block_content(markdown) ==
    Join(ExtractLoop(Lines(markdown), FALSE, BT, <<>>), <<NL>>)

\* Index of the first opening fence line, 0 when there is none.
BlockStart(lines) ==
    IF \E i \in 1..Len(lines) : IsOpeningFence(lines[i])
    THEN CHOOSE i \in 1..Len(lines) :
             IsOpeningFence(lines[i]) /\ \A j \in 1..(i - 1) : ~IsOpeningFence(lines[j])
    ELSE 0

\* Index of the first line after start that starts with the fence, 0 when none.
BlockEnd(lines, start, fence) ==
    LET closes(i) == StartsWith(TrimStart(lines[i]), <<fence>>)
    IN  IF \E i \in (start + 1)..Len(lines) : closes(i)
        THEN CHOOSE i \in (start + 1)..Len(lines) :
                 closes(i) /\ \A j \in (start + 1)..(i - 1) : ~closes(j)
        ELSE 0

update_prompt_block(body, new_content) ==
    LET lines == Lines(body)
        start == BlockStart(lines)
        fence == IF start = 0 THEN BT ELSE FenceOf(lines[start])
        end   == IF start = 0 THEN 0 ELSE BlockEnd(lines, start, fence)
        replacement == IF new_content # <<>> THEN Lines(new_content) ELSE <<>>
        output == TrimEnd(body)
    IN  IF start # 0 /\ end # 0
        THEN Join(SubSeq(lines, 1, start) \o replacement \o SubSeq(lines, end, Len(lines)),
                  <<NL>>)
        ELSE (IF output # <<>> THEN output \o <<NL, NL>> ELSE output)
                 \o <<BT, PR, NL>> \o new_content \o <<NL, BT, NL>>

normalize_frontmatter_key(key) ==
    IF key \in {"", " "} THEN "tags" ELSE key

\* Option<String>: NULL when the tag normalizes to nothing.
normalize_tag(tag) ==
    LET normalized == Trim(TrimStartMatches(Trim(tag), "#"))
    IN  IF normalized = <<>> THEN NULL ELSE normalized

extract_string(map, key) ==
    IF key \in DOMAIN map /\ map[key].kind = "String" THEN map[key].str ELSE NULL

RECURSIVE FilterMapTags(_)
\* filter_map(normalize_tag) over a sequence of strings, in order.
FilterMapTags(tags) ==
    IF tags = <<>> THEN <<>>
    ELSE LET n == normalize_tag(Head(tags))
         IN  (IF n = NULL THEN <<>> ELSE <<n>>) \o FilterMapTags(Tail(tags))

RECURSIVE SplitTagText(_)
\* str::split at commas and whitespace.
SplitTagText(text) ==
    LET sep(c) == c = "," \/ IsWs(c)
    IN  IF \A i \in 1..Len(text) : ~sep(text[i])
        THEN <<text>>
        ELSE LET i == CHOOSE k \in 1..Len(text) :
                          sep(text[k]) /\ \A j \in 1..(k - 1) : ~sep(text[j])
             IN  <<SubSeq(text, 1, i - 1)>> \o SplitTagText(SubSeq(text, i + 1, Len(text)))

extract_tags(map, key) ==
    IF key \notin DOMAIN map THEN <<>>
    ELSE IF map[key].kind = "Sequence" THEN FilterMapTags(map[key].seq)
    ELSE IF map[key].kind = "String" THEN FilterMapTags(SplitTagText(map[key].str))
    ELSE <<>>

set_tags(map, key, tags) ==
    MapInsert(map, key, YamlSequence(FilterMapTags(tags)))

\* --------------------------------------------------------------------------
\* Vault files (vault.rs)
\* --------------------------------------------------------------------------

\* A vault entry: no file, a UTF-8 markdown file split by gray_matter into its
\* frontmatter mapping and its body, or a file fs::read_to_string cannot read.
NoFile == [kind |-> "absent", fm |-> EmptyMapping, body |-> <<>>]
TextFile(fm, body) == [kind |-> "text", fm |-> fm, body |-> body]
BinaryFile == [kind |-> "binary", fm |-> EmptyMapping, body |-> <<>>]

\* Path::exists under the vault root.
Exists(vlt, root_exists, name) ==
    root_exists /\ name \in DOMAIN vlt /\ vlt[name].kind # "absent"

\* SHA-256 of the file text, kept symbolic: equal exactly for equal texts.
compute_file_hash(file) == <<"sha256", file.fm, file.body>>

compute_file_hash_from_path(vlt, root_exists, name) ==
    IF Exists(vlt, root_exists, name) /\ vlt[name].kind = "text"
    THEN compute_file_hash(vlt[name])
    ELSE NULL

PromptFile(id, tags, created, content, file_hash, title, description) ==
    [id |-> id, file_path |-> id, tags |-> tags, created |-> created,
     content |-> content, file_hash |-> file_hash, title |-> title,
     description |-> description]

NoPromptFile == PromptFile(<<>>, <<>>, NULL, <<>>, NULL, NULL, NULL)

read_prompt_file(vlt, root_exists, name, frontmatter_settings) ==
    IF ~(Exists(vlt, root_exists, name) /\ vlt[name].kind = "text")
    THEN [ok |-> FALSE, val |-> NoPromptFile, err |-> VaultError("IoError", "read_to_string")]
    ELSE LET file == vlt[name]
             prompt_tags_property ==
                 normalize_frontmatter_key(frontmatter_settings.prompt_tags_property)
         IN  [ok |-> TRUE,
              val |-> PromptFile(name,
                                 extract_tags(file.fm, prompt_tags_property),
                                 extract_string(file.fm, "created"),
                                 extract_code_block_content(file.body),
                                 compute_file_hash(file),
                                 extract_string(file.fm, "title"),
                                 extract_string(file.fm, "description")),
              err |-> NoError]

\* read_dir lists the direct children of the root only: a name with a
\* separator is a file of a subdirectory.
IsDirEntry(name) == ~Contains(name, <<"/">>) /\ ~Contains(name, <<"\\">>)

\* Path::extension is Some("md"): the name ends in ".md" after a stem (a name
\* that is only ".md" has no extension).
HasMdExtension(name) == EndsWith(name, DotMd) /\ Len(name) > Len(DotMd)

\* The entries the scan returns, as a set: read_dir yields them in no fixed order.
ScannedFiles(vlt, frontmatter_settings) ==
    {read_prompt_file(vlt, TRUE, n, frontmatter_settings).val :
        n \in {m \in DOMAIN vlt : IsDirEntry(m) /\ HasMdExtension(m)
                   /\ read_prompt_file(vlt, TRUE, m, frontmatter_settings).ok}}

\* Variant of scan_vault: a file that cannot be read ends the scan with its error.
scan_vault_aborts_on_unreadable(vlt, root_exists, frontmatter_settings, read_dir_ok) ==
    IF ~root_exists
    THEN [ok |-> FALSE, val |-> {}, err |-> VaultError("PathNotFound", "vault path")]
    ELSE IF ~read_dir_ok
    THEN [ok |-> FALSE, val |-> {}, err |-> VaultError("IoError", "read_dir")]
    ELSE IF \E m \in DOMAIN vlt : HasMdExtension(m) /\ vlt[m].kind = "binary"
    THEN [ok |-> FALSE, val |-> {}, err |-> VaultError("IoError", "read_to_string")]
    ELSE [ok |-> TRUE, val |-> ScannedFiles(vlt, frontmatter_settings), err |-> NoError]

scan_vault(vlt, root_exists, frontmatter_settings, read_dir_ok) ==
    IF ~root_exists
    THEN [ok |-> FALSE, val |-> {}, err |-> VaultError("PathNotFound", "vault path")]
    ELSE IF ~read_dir_ok
    THEN [ok |-> FALSE, val |-> {}, err |-> VaultError("IoError", "read_dir")]
    ELSE [ok |-> TRUE, val |-> ScannedFiles(vlt, frontmatter_settings), err |-> NoError]

\* Variant of find_prompt_by_id: the error of the read is passed on as it is.
find_prompt_by_id_keeps_read_error(vlt, root_exists, id, frontmatter_settings) ==
    LET relative_path == normalize_relative_path(id)
    IN  IF ~root_exists
        THEN [ok |-> FALSE, val |-> NoPromptFile,
              err |-> VaultError("PathNotFound", "vault path")]
        ELSE IF ~relative_path.ok
        THEN [ok |-> FALSE, val |-> NoPromptFile, err |-> relative_path.err]
        ELSE LET r == read_prompt_file(vlt, root_exists, relative_path.val,
                                       frontmatter_settings)
             IN  IF r.ok THEN r
                 ELSE r

find_prompt_by_id(vlt, root_exists, id, frontmatter_settings) ==
    LET relative_path == normalize_relative_path(id)
    IN  IF ~root_exists
        THEN [ok |-> FALSE, val |-> NoPromptFile,
              err |-> VaultError("PathNotFound", "vault path")]
        ELSE IF ~relative_path.ok
        THEN [ok |-> FALSE, val |-> NoPromptFile, err |-> relative_path.err]
        ELSE LET r == read_prompt_file(vlt, root_exists, relative_path.val,
                                       frontmatter_settings)
             IN  IF r.ok THEN r
                 ELSE [ok |-> FALSE, val |-> NoPromptFile,
                       err |-> VaultError("NotFound", "id")]

\* Variant of BuildFrontmatter: the existing mapping is not carried over.
BuildFrontmatter_from_scratch(existing_map, prompt, frontmatter_settings, now) ==
    LET created == IF prompt.created # NULL THEN prompt.created
                   ELSE IF extract_string(existing_map, "created") # NULL
                   THEN extract_string(existing_map, "created")
                   ELSE now
        m1 == MapInsert(EmptyMapping, "created", YamlString(created))
        prompt_tags_property ==
            normalize_frontmatter_key(frontmatter_settings.prompt_tags_property)
        m2 == set_tags(m1, prompt_tags_property, prompt.tags)
        existing_tags == extract_tags(m2, "tags")
        m3 == IF frontmatter_settings.add_prompts_tag_to_tags
              THEN set_tags(m2, "tags",
                            IF \E i \in 1..Len(existing_tags) : existing_tags[i] = <<"prompts">>
                            THEN existing_tags
                            ELSE Append(existing_tags, <<"prompts">>))
              ELSE m2
        m4 == IF prompt.title # NULL /\ Trim(prompt.title) # <<>>
              THEN MapInsert(m3, "title", YamlString(prompt.title))
              ELSE MapRemove(m3, "title")
        m5 == IF prompt.description # NULL /\ Trim(prompt.description) # <<>>
              THEN MapInsert(m4, "description", YamlString(prompt.description))
              ELSE MapRemove(m4, "description")
    IN  MapRemove(m5, "id")

\* The frontmatter mapping write_prompt_file renders for prompt over the
\* existing mapping; now is the formatted Utc::now().
BuildFrontmatter(existing_map, prompt, frontmatter_settings, now) ==
    LET created == IF prompt.created # NULL THEN prompt.created
                   ELSE IF extract_string(existing_map, "created") # NULL
                   THEN extract_string(existing_map, "created")
                   ELSE now
        m1 == MapInsert(existing_map, "created", YamlString(created))
        prompt_tags_property ==
            normalize_frontmatter_key(frontmatter_settings.prompt_tags_property)
        m2 == set_tags(m1, prompt_tags_property, prompt.tags)
        existing_tags == extract_tags(m2, "tags")
        m3 == IF frontmatter_settings.add_prompts_tag_to_tags
              THEN set_tags(m2, "tags",
                            IF \E i \in 1..Len(existing_tags) : existing_tags[i] = <<"prompts">>
                            THEN existing_tags
                            ELSE Append(existing_tags, <<"prompts">>))
              ELSE m2
        m4 == IF prompt.title # NULL /\ Trim(prompt.title) # <<>>
              THEN MapInsert(m3, "title", YamlString(prompt.title))
              ELSE MapRemove(m3, "title")
        m5 == IF prompt.description # NULL /\ Trim(prompt.description) # <<>>
              THEN MapInsert(m4, "description", YamlString(prompt.description))
              ELSE MapRemove(m4, "description")
    IN  MapRemove(m5, "id")

\* parse_existing_prompt: the mapping and body of a readable file, else empty.
parse_existing_prompt(vlt, root_exists, name) ==
    IF Exists(vlt, root_exists, name) /\ vlt[name].kind = "text"
    THEN [fm |-> vlt[name].fm, body |-> vlt[name].body]
    ELSE [fm |-> EmptyMapping, body |-> <<>>]

\* Variant of write_prompt_file: the content is not searched for fences.
write_prompt_file_accepts_fences(vlt, root_exists, prompt, frontmatter_settings, now, write_ok) ==
    LET relative_path == normalize_relative_path(prompt.file_path)
    IN  IF FALSE
        THEN [ok |-> FALSE, vlt |-> vlt, err |-> VaultError("InvalidContent", "fence")]
        ELSE IF ~relative_path.ok
        THEN [ok |-> FALSE, vlt |-> vlt, err |-> relative_path.err]
        ELSE LET existing == parse_existing_prompt(vlt, root_exists, relative_path.val)
                 frontmatter_map ==
                     BuildFrontmatter(existing.fm, prompt, frontmatter_settings, now)
                 updated_body == update_prompt_block(existing.body, prompt.content)
             IN  IF ~(root_exists /\ write_ok)
                 THEN [ok |-> FALSE, vlt |-> vlt, err |-> VaultError("IoError", "write")]
                 ELSE [ok |-> TRUE,
                       vlt |-> [n \in (DOMAIN vlt) \cup {relative_path.val} |->
                                   IF n = relative_path.val
                                   THEN TextFile(frontmatter_map, updated_body)
                                   ELSE vlt[n]],
                       err |-> NoError]

\* write_ok: whether fs::write succeeds. vlt is the vault after the call.
write_prompt_file(vlt, root_exists, prompt, frontmatter_settings, now, write_ok) ==
    LET relative_path == normalize_relative_path(prompt.file_path)
    IN  IF Contains(prompt.content, <<BT>>) \/ Contains(prompt.content, <<TL>>)
        THEN [ok |-> FALSE, vlt |-> vlt, err |-> VaultError("InvalidContent", "fence")]
        ELSE IF ~relative_path.ok
        THEN [ok |-> FALSE, vlt |-> vlt, err |-> relative_path.err]
        ELSE LET existing == parse_existing_prompt(vlt, root_exists, relative_path.val)
                 frontmatter_map ==
                     BuildFrontmatter(existing.fm, prompt, frontmatter_settings, now)
                 updated_body == update_prompt_block(existing.body, prompt.content)
             IN  IF ~(root_exists /\ write_ok)
                 THEN [ok |-> FALSE, vlt |-> vlt, err |-> VaultError("IoError", "write")]
                 ELSE [ok |-> TRUE,
                       vlt |-> [n \in (DOMAIN vlt) \cup {relative_path.val} |->
                                   IF n = relative_path.val
                                   THEN TextFile(frontmatter_map, updated_body)
                                   ELSE vlt[n]],
                       err |-> NoError]

\* remove_ok: whether fs::remove_file succeeds.
delete_prompt_file(vlt, root_exists, id, remove_ok) ==
    LET relative_path == normalize_relative_path(id)
    IN  IF ~relative_path.ok
        THEN [ok |-> FALSE, vlt |-> vlt, err |-> relative_path.err]
        ELSE IF ~Exists(vlt, root_exists, relative_path.val)
        THEN [ok |-> FALSE, vlt |-> vlt, err |-> VaultError("PathNotFound", "file")]
        ELSE IF ~remove_ok
        THEN [ok |-> FALSE, vlt |-> vlt, err |-> VaultError("IoError", "remove_file")]
        ELSE [ok |-> TRUE,
              vlt |-> [vlt EXCEPT ![relative_path.val] = NoFile],
              err |-> NoError]

\* The candidates "<date>-<6 hex>.md" the generator can draw.
Candidates == { <<"g", ".", "m", "d">> }

\* The outcomes of generate_unique_file_path: some candidate that does not
\* exist, or FileAlreadyExists when every attempt drew an existing one.
generate_unique_file_path(vlt, root_exists) ==
    {[ok |-> TRUE, val |-> c, err |-> NoError] :
        c \in {d \in Candidates : ~Exists(vlt, root_exists, d)}}
    \cup (IF \E c \in Candidates : Exists(vlt, root_exists, c)
          THEN {[ok |-> FALSE, val |-> <<>>,
                 err |-> VaultError("FileAlreadyExists",
                                    "Failed to generate unique filename")]}
          ELSE {})

\* --------------------------------------------------------------------------
\* Cache Store (db/queries.rs, db/mod.rs)
\* --------------------------------------------------------------------------

\* The tables init_db creates: prompts keyed by id, tags, prompt_tags.
EmptyDb == [prompts |-> <<>>, tags |-> {}, prompt_tags |-> {}]

\* CREATE_PROMPTS_TABLE: the columns of a prompts row, in declaration order.
PromptRow(id, created_at, title, text, description, mode) ==
    [id |-> id, created_at |-> created_at, title |-> title, text |-> text,
     description |-> description, mode |-> mode]

\* UPSERT_PROMPT with its six positional parameters. id, text and mode are
\* NOT NULL; on a conflict of id the row keeps its created_at.
UPSERT_PROMPT(db, p1, p2, p3, p4, p5, p6) ==
    IF p1 = NULL \/ p4 = NULL \/ p6 = NULL
    THEN [ok |-> FALSE, db |-> db]
    ELSE [ok |-> TRUE,
          db |-> [db EXCEPT !.prompts =
                     [i \in (DOMAIN db.prompts) \cup {p1} |->
                         IF i # p1 THEN db.prompts[i]
                         ELSE IF p1 \in DOMAIN db.prompts
                         THEN PromptRow(p1, db.prompts[p1].created_at, p3, p4, p5, p6)
                         ELSE PromptRow(p1, p2, p3, p4, p5, p6)]]]

\* Variant of DELETE_PROMPT: the foreign key of prompt_tags does not cascade.
DELETE_PROMPT_without_cascade(db, id) ==
    [db EXCEPT !.prompts = [i \in (DOMAIN db.prompts) \ {id} |-> db.prompts[i]]]

\* DELETE_PROMPT; prompt_tags rows go with it (ON DELETE CASCADE, foreign keys on).
DELETE_PROMPT(db, id) ==
    [db EXCEPT !.prompts = [i \in (DOMAIN db.prompts) \ {id} |-> db.prompts[i]],
               !.prompt_tags = {pt \in db.prompt_tags : pt.prompt_id # id}]

DELETE_PROMPT_TAGS(db, prompt_id) ==
    [db EXCEPT !.prompt_tags = {pt \in db.prompt_tags : pt.prompt_id # prompt_id}]

\* INSERT_PROMPT_TAG: ON CONFLICT DO NOTHING; both foreign keys must resolve.
INSERT_PROMPT_TAG(db, prompt_id, tag_id) ==
    IF prompt_id \notin DOMAIN db.prompts \/ ~(\E t \in db.tags : t.id = tag_id)
    THEN [ok |-> FALSE, db |-> db]
    ELSE [ok |-> TRUE,
          db |-> [db EXCEPT !.prompt_tags =
                     @ \cup {[prompt_id |-> prompt_id, tag_id |-> tag_id]}]]

\* INSERT_TAG: id is the primary key and name is UNIQUE.
INSERT_TAG(db, id, name) ==
    IF \E t \in db.tags : t.id = id \/ t.name = name
    THEN [ok |-> FALSE, db |-> db]
    ELSE [ok |-> TRUE, db |-> [db EXCEPT !.tags = @ \cup {[id |-> id, name |-> name]}]]

\* Uuid::new_v4: an id no tags row has.
FreshTagId(db) == CHOOSE n \in 1..(Cardinality(db.tags) + 1) : \A t \in db.tags : t.id # n

\* Variant of get_or_create_tag: a row is inserted without looking the name up,
\* into a table without the UNIQUE constraint.
get_or_create_tag_always_inserts(db, tag_name) ==
    LET id == FreshTagId(db)
    IN  [ok |-> TRUE, id |-> id,
         db |-> [db EXCEPT !.tags = @ \cup {[id |-> id, name |-> tag_name]}]]

get_or_create_tag(db, tag_name) ==
    IF \E t \in db.tags : t.name = tag_name
    THEN [ok |-> TRUE, db |-> db,
          id |-> (CHOOSE t \in db.tags : t.name = tag_name).id]
    ELSE LET id == FreshTagId(db)
             r  == INSERT_TAG(db, id, tag_name)
         IN  [ok |-> r.ok, db |-> r.db, id |-> id]

RECURSIVE InsertTags(_, _, _)
\* The loop "for tag_name in tags: get_or_create_tag, INSERT_PROMPT_TAG".
InsertTags(db, prompt_id, tags) ==
    IF tags = <<>> THEN [ok |-> TRUE, db |-> db]
    ELSE LET t == get_or_create_tag(db, Head(tags))
             r == INSERT_PROMPT_TAG(t.db, prompt_id, t.id)
         IN  IF ~t.ok THEN [ok |-> FALSE, db |-> db]
             ELSE IF ~r.ok THEN [ok |-> FALSE, db |-> db]
             ELSE InsertTags(r.db, prompt_id, Tail(tags))

\* SELECT_TAGS_FOR_PROMPT, as the set of names.
TagsForPrompt(db, prompt_id) ==
    {t.name : t \in {u \in db.tags :
        [prompt_id |-> prompt_id, tag_id |-> u.id] \in db.prompt_tags}}

\* --------------------------------------------------------------------------
\* Bounds and input domains
\* --------------------------------------------------------------------------

\* Commands and external edits in one behaviour.
MaxOps == 3

\* The debounce window of the watcher callback and the age of last_emit in a
\* fresh VaultWatcherState, in milliseconds.
Debounce == 250
InitialAge == 60000

\* The attempts generate_unique_file_path makes.
MaxAttempts == 20

\* The lines of a parsed body.
MaxLines == 4

\* Callbacks observed, the end of the clock, and the steps the clock makes.
MaxEvents == 3
MaxTime == 500
\* The closures run while calls of start_vault_watch overlap, and the end of
\* the clock then.
MaxCallbacks == 2
MaxLockTime == 250
TickSteps == {125, 250}

A == <<"a", ".", "m", "d">>
B == <<"b", ".", "m", "d">>
\* The one candidate name generate_unique_file_path draws in the model.
G == <<"g", ".", "m", "d">>
FileNames == {A, B, G}

C1 == <<"c1">>
C2 == <<"c2">>
\* Utc::now() formatted, at the time of a write.
Now == <<"now">>

PromptBody(fence, content) == <<fence, PR, NL>> \o content \o <<NL, fence, NL>>

\* A file the vault may hold when the application starts.
InitialFiles ==
    { TextFile([created |-> YamlString(C2), tags |-> YamlSequence(<< <<"g">> >>),
                title |-> YamlString(<<"v">>)],
               PromptBody(BT, <<"z">>)) }

\* Files an external editor leaves in the vault.
ExternalFiles ==
    { TextFile([created |-> YamlString(C1), tags |-> YamlSequence(<< <<"f">> >>),
                title |-> YamlString(<<"t">>)],
               PromptBody(BT, <<"x">>)),
      TextFile([created |-> YamlString(C2), tags |-> YamlString(<<"f", ",", " ", "#", "g">>),
                title |-> YamlString(<<"u">>), author |-> YamlString(<<"e">>)],
               <<"i", NL>> \o PromptBody(TL, <<"y">>) \o <<"o">>),
      TextFile(EmptyMapping, <<"n">>),
      BinaryFile }

\* config.toml as the commands load it. FrontmatterSettings is not defined in
\* the sources at hand; its two fields are the ones vault.rs reads.
Configs ==
    { [vault_path |-> "vault", root_exists |-> TRUE,
       frontmatter |-> [prompt_tags_property |-> "tags", add_prompts_tag_to_tags |-> FALSE]],
      [vault_path |-> "vault", root_exists |-> TRUE,
       frontmatter |-> [prompt_tags_property |-> "keywords", add_prompts_tag_to_tags |-> TRUE]],
      [vault_path |-> "missing", root_exists |-> FALSE,
       frontmatter |-> [prompt_tags_property |-> "tags", add_prompts_tag_to_tags |-> FALSE]],
      [vault_path |-> "NULL", root_exists |-> FALSE,
       frontmatter |-> [prompt_tags_property |-> "tags", add_prompts_tag_to_tags |-> FALSE]] }

\* The PromptInput values save_prompt is called with (file_path and
\* previous_file_path are Option<String>; id is only logged): each pair of
\* paths with each choice of the other fields.
InputPaths ==
    { <<<<"a">>, NULL>>, <<<<"a">>, A>>, <<<<"a">>, B>>,
      <<B, NULL>>, <<B, A>>, <<B, B>>,
      <<NULL, NULL>>, <<NULL, A>>,
      <<<<".", ".", "/", "a">>, NULL>>, <<B, <<".", ".", "/", "a">>>> }

InputFields ==
    { [tags |-> << <<"f">> >>, created |-> C1, text |-> <<"x">>, title |-> <<"t">>],
      [tags |-> << <<"#", "f">>, <<"g">> >>, created |-> NULL, text |-> <<"y", NL>>,
       title |-> <<"t">>],
      [tags |-> << <<"f">> >>, created |-> C1, text |-> <<"x">>, title |-> NULL],
      [tags |-> << <<"f">> >>, created |-> C1, text |-> <<BT, "x">>, title |-> <<"t">>] }

PromptInputs ==
    { [file_path |-> ps[1], previous_file_path |-> ps[2], tags |-> f.tags,
       created |-> f.created, text |-> f.text, title |-> f.title] :
          ps \in InputPaths, f \in InputFields }


\* The ids delete_prompt is called with: existing names, a name without the
\* extension, and one that does not normalize.
DeleteIds == { A, B, <<"b">>, <<"/", "a">> }


\* The ids the vault commands read_prompt_file and delete_prompt_file are
\* called with.
VaultIds == { A, <<"b">> }

\* The PromptFile values the vault command write_prompt_file is called with
\* (file_hash and description left out by the caller).
WriteInputs ==
    { PromptFile(A, << <<"f">> >>, C1, <<"x">>, NULL, <<"t">>, NULL),
      PromptFile(B, <<>>, NULL, <<"x", NL, TL, "y">>, NULL, NULL, NULL) }


\* Ids the path normalizer refuses: empty, blank, holding "..", starting with
\* a separator, holding a separator.
BadIds ==
    { <<>>, <<" ">>, <<"a", ".", ".">>, <<"/", "a">>, <<"\\", "a">>,
      <<"a", "/", "b">>, <<"a", "\\", "b">> }

\* The ids, entries and inputs the commands are called with when the subject
\* is the id: every refused id and one good id, the other fields fixed.
PathIds == BadIds \cup { A }

PathWriteInputs ==
    { PromptFile(id, << <<"f">> >>, C1, <<"x">>, NULL, <<"t">>, NULL) : id \in PathIds }

PathSaveInputs ==
    { [file_path |-> ps[1], previous_file_path |-> ps[2], tags |-> << <<"f">> >>,
       created |-> C1, text |-> <<"x">>, title |-> <<"t">>] :
          ps \in (PathIds \X {NULL, B}) \cup ({A} \X BadIds) }


\* Files the codec is applied to, at the name A: with a complete block and a
\* final newline, with text around a tilde block and none, with text after the
\* block and a final newline, without a block (and with a created that is
\* not a string, such as a number), with a block left open, empty.
CodecFiles ==
    { TextFile([created |-> YamlString(C2), tags |-> YamlSequence(<< <<"g">> >>),
                title |-> YamlString(<<"v">>), author |-> YamlString(<<"e">>),
                id |-> YamlString(<<"q">>)],
               PromptBody(BT, <<"z">>)),
      TextFile([keywords |-> YamlString(<<"f", ",", " ", "#", "g">>),
                tags |-> YamlString(<<"h", " ", "k">>), rank |-> YamlOther],
               <<"i", NL, TL, PR, NL, "y", NL, "w", NL, TL, NL, "o">>),
      TextFile([author |-> YamlString(<<"e">>)],
               <<"i", NL>> \o PromptBody(BT, <<"z">>) \o <<"o", NL>>),
      TextFile([description |-> YamlString(<<"d">>), created |-> YamlOther], <<"n", NL>>),
      TextFile(EmptyMapping, <<BT, PR, NL, "z">>),
      TextFile(EmptyMapping, <<>>) }

\* Frontmatter settings the codec runs under, the vault configured and present.
CodecConfigs ==
    { [vault_path |-> "vault", root_exists |-> TRUE,
       frontmatter |-> [prompt_tags_property |-> k, add_prompts_tag_to_tags |-> b]] :
          k \in {"tags", "keywords"}, b \in BOOLEAN }

\* Entries written to A: one-line, empty and multi-line content, content that
\* ends in a newline; tags that need normalizing, and none.
CodecPrompts ==
    { PromptFile(A, t, c[2], c[1], NULL, c[3], NULL) :
          t \in { << <<"#", "f">>, <<" ">>, <<"g">> >>, <<>> },
          c \in { << <<"x">>, C1, <<"t">> >>, << <<>>, NULL, NULL >>,
                  << <<"x", NL, "y">>, NULL, <<"t">> >>, << <<"y", NL>>, C1, NULL >> } }

\* Command invocations in flight.
Procs == {1}

\* --------------------------------------------------------------------------
\* State
\* --------------------------------------------------------------------------

VARIABLES
    vault,     \* file name -> file, the directory config.vault_path names
    config,    \* the loaded AppConfig
    cache,     \* the committed contents of cache.db
    pc,        \* per invocation: where the command stands
    loc,       \* per invocation: the command's local variables
    result,    \* per invocation: what the command returned
    pre,       \* per invocation: vault and cache when the command was called
    ops,       \* commands called and external edits made so far
    last_sync,   \* the last successful sync_vault, while nothing else has run since
    last_delete, \* the last successful delete_prompt, while nothing else has run since
    watcher_state, \* the managed VaultWatcherState: watcher, path, last_emit
    notify,      \* the watchers created so far and the ones still alive
    now,         \* the monotonic clock (Instant::now), in milliseconds
    events,      \* the watcher callbacks run so far: when, and with what result
    emitted      \* the "vault-changed" emissions: when, and for which callback

\* The watcher's variables.
wvars == <<watcher_state, notify, now, events, emitted>>

vars == <<vault, config, cache, pc, loc, result, pre, ops, last_sync, last_delete, wvars>>

NoStats == [found |-> 0, updated |-> 0, deleted |-> 0]
NoResult == [ok |-> FALSE, err |-> NoError, stats |-> NoStats]
Ok(stats) == [ok |-> TRUE, err |-> NoError, stats |-> stats]
Err(e) == [ok |-> FALSE, err |-> e, stats |-> NoStats]

NoPrompt == [file_path |-> NULL, previous_file_path |-> NULL, tags |-> <<>>,
             created |-> NULL, text |-> <<>>, title |-> NULL]

IdleLoc == [cmd |-> "none", prompt |-> NoPrompt, id |-> NULL, file |-> NoPromptFile,
            read |-> NoPromptFile, file_path |-> NULL,
            previous_file_path |-> NULL, scanned |-> {}, files |-> {},
            found_ids |-> {}, found_count |-> 0, tx |-> EmptyDb,
            ids_left |-> {}, deleted_count |-> 0, wrote |-> FALSE,
            committed |-> FALSE, vault_path |-> "NULL", watcher |-> 0,
            attempts |-> 0, collisions |-> 0, event |-> 0]

NoWatcher == 0
NoPre == [vault |-> <<>>, cache |-> EmptyDb,
          watcher_state |-> [watcher |-> NoWatcher, path |-> "NULL", last_emit |-> 0],
          watchers |-> {}]

NoLastSync == [valid |-> FALSE, found |-> 0, cache |-> EmptyDb]

NoLastDelete == [valid |-> FALSE, id |-> NULL, vault |-> <<>>, cache |-> EmptyDb]

AllIdle == \A q \in Procs : pc[q] = "idle"

\* VaultWatcherState::default(): no watcher, no path, last_emit a minute
\* before the state is built; nothing is watched and the clock starts at 0.
WatcherInit ==
    /\ watcher_state = [watcher |-> NoWatcher, path |-> "NULL", last_emit |-> 0 - InitialAge]
    /\ notify = [created |-> 0, watchers |-> {}]
    /\ now = 0
    /\ events = <<>>
    /\ emitted = <<>>

Init ==
    /\ vault \in {v \in [FileNames -> {NoFile} \cup InitialFiles] :
                       \A n \in FileNames \ {B} : v[n] = NoFile}
    /\ config \in Configs
    /\ cache = EmptyDb
    /\ pc = [p \in Procs |-> "idle"]
    /\ loc = [p \in Procs |-> IdleLoc]
    /\ result = [p \in Procs |-> NoResult]
    /\ pre = [p \in Procs |-> NoPre]
    /\ ops = 0
    /\ last_sync = NoLastSync
    /\ last_delete = NoLastDelete
    /\ WatcherInit

\* --------------------------------------------------------------------------
\* The external editor
\* --------------------------------------------------------------------------

EnvWrite(name, file) ==
    /\ ops < MaxOps
    /\ vault[name] # file
    /\ vault' = [vault EXCEPT ![name] = file]
    /\ ops' = ops + 1
    /\ last_sync' = NoLastSync
    /\ last_delete' = NoLastDelete
    /\ UNCHANGED <<config, cache, pc, loc, result, pre, wvars>>

EnvDelete(name) ==
    /\ ops < MaxOps
    /\ vault[name] # NoFile
    /\ vault' = [vault EXCEPT ![name] = NoFile]
    /\ ops' = ops + 1
    /\ last_sync' = NoLastSync
    /\ last_delete' = NoLastDelete
    /\ UNCHANGED <<config, cache, pc, loc, result, pre, wvars>>

\* --------------------------------------------------------------------------
\* Commands (commands.rs)
\* --------------------------------------------------------------------------

\* A command is called: its locals start fresh, vault and cache are noted.
Call(p, cmd) ==
    /\ pc[p] = "idle"
    /\ ops < MaxOps
    /\ ops' = ops + 1
    /\ pre' = [pre EXCEPT ![p] = [vault |-> vault, cache |-> cache,
                                  watcher_state |-> watcher_state,
                                  watchers |-> notify.watchers]]
    /\ UNCHANGED wvars
    /\ last_sync' = IF cmd = "sync_vault" THEN last_sync ELSE NoLastSync
    /\ last_delete' = IF cmd = "delete_prompt" THEN last_delete ELSE NoLastDelete

\* The command returns r; an open transaction is dropped, which rolls it back.
Finish(p, r, l) ==
    /\ pc' = [pc EXCEPT ![p] = "done"]
    /\ result' = [result EXCEPT ![p] = r]
    /\ loc' = [loc EXCEPT ![p] = l]

\* The caller takes the result.
Return(p) ==
    /\ pc[p] = "done"
    /\ pc' = [pc EXCEPT ![p] = "idle"]
    /\ loc' = [loc EXCEPT ![p] = IdleLoc]
    /\ result' = [result EXCEPT ![p] = NoResult]
    /\ pre' = [pre EXCEPT ![p] = NoPre]
    /\ last_sync' = IF loc[p].cmd = "sync_vault" /\ result[p].ok
                    THEN [valid |-> TRUE, found |-> result[p].stats.found, cache |-> cache]
                    ELSE last_sync
    /\ last_delete' = IF loc[p].cmd # "delete_prompt" THEN last_delete
                      ELSE IF result[p].ok
                      THEN [valid |-> TRUE, id |-> loc[p].id, vault |-> vault, cache |-> cache]
                      ELSE NoLastDelete
    /\ UNCHANGED <<vault, config, cache, ops, wvars>>


\* Where a command stands while its transaction holds the database's write lock.
TxStates == {"sync_upsert", "sync_prune", "save_delete_old", "save_upsert",
             "save_tags", "save_commit"}

\* SQLite admits one writing transaction at a time: a transaction's first
\* statement waits (busy timeout) while another command's transaction is open.
WriteLockFree(p) == \A q \in (DOMAIN pc) \ {p} : pc[q] \notin TxStates

\* Variant of sync_vault_call: a missing vault path is not looked at.
sync_vault_call_skips_path_check(p) ==
    /\ Call(p, "sync_vault")
    /\ \E config_ok \in BOOLEAN, read_dir_ok \in BOOLEAN :
          LET l == [IdleLoc EXCEPT !.cmd = "sync_vault"]
              files == scan_vault(vault, config.root_exists, config.frontmatter, read_dir_ok)
          IN  IF ~config_ok
              THEN Finish(p, Err(DbError("Database", "Failed to load config")), l)
              ELSE IF FALSE
              THEN Finish(p, Err(DbError("Database", "Vault path not configured")), l)
              ELSE IF ~files.ok
              THEN Finish(p, Err(DbError("Database", "Failed to scan vault")), l)
              ELSE /\ pc' = [pc EXCEPT ![p] = "sync_begin"]
                   /\ loc' = [loc EXCEPT ![p] =
                                 [l EXCEPT !.scanned = files.val, !.files = files.val,
                                           !.found_count = Cardinality(files.val)]]
                   /\ UNCHANGED result
    /\ UNCHANGED <<vault, config, cache>>

\* sync_vault up to the scan: load the config, scan the vault.
sync_vault_call(p) ==
    /\ Call(p, "sync_vault")
    /\ \E config_ok \in BOOLEAN, read_dir_ok \in BOOLEAN :
          LET l == [IdleLoc EXCEPT !.cmd = "sync_vault"]
              files == scan_vault(vault, config.root_exists, config.frontmatter, read_dir_ok)
          IN  IF ~config_ok
              THEN Finish(p, Err(DbError("Database", "Failed to load config")), l)
              ELSE IF config.vault_path = "NULL"
              THEN Finish(p, Err(DbError("Database", "Vault path not configured")), l)
              ELSE IF ~files.ok
              THEN Finish(p, Err(DbError("Database", "Failed to scan vault")), l)
              ELSE /\ pc' = [pc EXCEPT ![p] = "sync_begin"]
                   /\ loc' = [loc EXCEPT ![p] =
                                 [l EXCEPT !.scanned = files.val, !.files = files.val,
                                           !.found_count = Cardinality(files.val)]]
                   /\ UNCHANGED result
    /\ UNCHANGED <<vault, config, cache>>

\* db.begin()
sync_vault_begin(p) ==
    /\ pc[p] = "sync_begin"
    /\ WriteLockFree(p)
    /\ \E begin_ok \in BOOLEAN :
          IF ~begin_ok
          THEN Finish(p, Err(DbError("Database", "sqlx")), loc[p])
          ELSE /\ pc' = [pc EXCEPT ![p] = "sync_upsert"]
               /\ loc' = [loc EXCEPT ![p].tx = cache]
               /\ UNCHANGED result
    /\ UNCHANGED <<vault, config, cache, pre, ops, last_sync, last_delete, wvars>>

\* sync_vault_upsert as it would be if it did not record the id as found.
sync_vault_upsert_forgets_found(p) ==
    /\ pc[p] = "sync_upsert"
    /\ \E file \in loc[p].files, stmt_ok \in BOOLEAN :
          LET up == UPSERT_PROMPT(loc[p].tx, file.file_path, file.created, file.content,
                                  file.title, file.file_path, file.file_hash)
              tg == InsertTags(DELETE_PROMPT_TAGS(up.db, file.file_path),
                               file.file_path, file.tags)
          IN  IF ~(stmt_ok /\ up.ok /\ tg.ok)
              THEN Finish(p, Err(DbError("Database", "sqlx")), loc[p])
              ELSE /\ loc' = [loc EXCEPT ![p].files = @ \ {file}, ![p].tx = tg.db]
                   /\ UNCHANGED <<pc, result>>
    /\ UNCHANGED <<vault, config, cache, pre, ops, last_sync, last_delete, wvars>>

\* One iteration of "for file in files": upsert the row, replace its tags.
sync_vault_upsert(p) ==
    /\ pc[p] = "sync_upsert"
    /\ \E file \in loc[p].files, stmt_ok \in BOOLEAN :
          LET found_ids == loc[p].found_ids \cup {file.file_path}
              up == UPSERT_PROMPT(loc[p].tx, file.file_path, file.created, file.content,
                                  file.title, file.file_path, file.file_hash)
              tg == InsertTags(DELETE_PROMPT_TAGS(up.db, file.file_path),
                               file.file_path, file.tags)
          IN  IF ~(stmt_ok /\ up.ok /\ tg.ok)
              THEN Finish(p, Err(DbError("Database", "sqlx")),
                          [loc[p] EXCEPT !.found_ids = found_ids])
              ELSE /\ loc' = [loc EXCEPT ![p].found_ids = found_ids,
                                         ![p].files = @ \ {file},
                                         ![p].tx = tg.db]
                   /\ UNCHANGED <<pc, result>>
    /\ UNCHANGED <<vault, config, cache, pre, ops, last_sync, last_delete, wvars>>

\* SELECT id FROM prompts, inside the transaction.
sync_vault_select(p) ==
    /\ pc[p] = "sync_upsert"
    /\ loc[p].files = {}
    /\ \E stmt_ok \in BOOLEAN :
          IF ~stmt_ok
          THEN Finish(p, Err(DbError("Database", "sqlx")), loc[p])
          ELSE /\ pc' = [pc EXCEPT ![p] = "sync_prune"]
               /\ loc' = [loc EXCEPT ![p].ids_left = DOMAIN loc[p].tx.prompts]
               /\ UNCHANGED result
    /\ UNCHANGED <<vault, config, cache, pre, ops, last_sync, last_delete, wvars>>

\* sync_vault_prune as it would be if it kept the rows the scan did not find.
sync_vault_prune_keeps_rows(p) ==
    /\ pc[p] = "sync_prune"
    /\ \E id \in loc[p].ids_left :
          /\ loc' = [loc EXCEPT ![p].ids_left = @ \ {id}]
          /\ UNCHANGED <<pc, result>>
    /\ UNCHANGED <<vault, config, cache, pre, ops, last_sync, last_delete, wvars>>

\* sync_vault_prune as it would be if it also removed the pruned id's file.
sync_vault_prune_removes_file(p) ==
    /\ pc[p] = "sync_prune"
    /\ \E id \in loc[p].ids_left, stmt_ok \in BOOLEAN :
          IF id \in loc[p].found_ids
          THEN /\ loc' = [loc EXCEPT ![p].ids_left = @ \ {id}]
               /\ UNCHANGED <<pc, result, vault>>
          ELSE IF ~stmt_ok
          THEN Finish(p, Err(DbError("Database", "sqlx")), loc[p]) /\ UNCHANGED vault
          ELSE /\ loc' = [loc EXCEPT ![p].ids_left = @ \ {id},
                                     ![p].tx = DELETE_PROMPT(@, id),
                                     ![p].deleted_count = @ + 1]
               /\ vault' = delete_prompt_file(vault, config.root_exists, id, TRUE).vlt
               /\ UNCHANGED <<pc, result>>
    /\ UNCHANGED <<config, cache, pre, ops, last_sync, last_delete, wvars>>

\* sync_vault_prune as it would be if it counted every row it visits.
sync_vault_prune_counts_all(p) ==
    /\ pc[p] = "sync_prune"
    /\ \E id \in loc[p].ids_left, stmt_ok \in BOOLEAN :
          IF id \in loc[p].found_ids
          THEN /\ loc' = [loc EXCEPT ![p].ids_left = @ \ {id},
                                     ![p].deleted_count = @ + 1]
               /\ UNCHANGED <<pc, result>>
          ELSE IF ~stmt_ok
          THEN Finish(p, Err(DbError("Database", "sqlx")), loc[p])
          ELSE /\ loc' = [loc EXCEPT ![p].ids_left = @ \ {id},
                                     ![p].tx = DELETE_PROMPT(@, id),
                                     ![p].deleted_count = @ + 1]
               /\ UNCHANGED <<pc, result>>
    /\ UNCHANGED <<vault, config, cache, pre, ops, last_sync, last_delete, wvars>>

\* One iteration of "for row in all_db_rows".
sync_vault_prune(p) ==
    /\ pc[p] = "sync_prune"
    /\ \E id \in loc[p].ids_left, stmt_ok \in BOOLEAN :
          IF id \in loc[p].found_ids
          THEN /\ loc' = [loc EXCEPT ![p].ids_left = @ \ {id}]
               /\ UNCHANGED <<pc, result>>
          ELSE IF ~stmt_ok
          THEN Finish(p, Err(DbError("Database", "sqlx")), loc[p])
          ELSE /\ loc' = [loc EXCEPT ![p].ids_left = @ \ {id},
                                     ![p].tx = DELETE_PROMPT(@, id),
                                     ![p].deleted_count = @ + 1]
               /\ UNCHANGED <<pc, result>>
    /\ UNCHANGED <<vault, config, cache, pre, ops, last_sync, last_delete, wvars>>

\* sync_vault_commit as it would be if a failed commit kept what was written.
sync_vault_commit_keeps_partial(p) ==
    /\ pc[p] = "sync_prune"
    /\ loc[p].ids_left = {}
    /\ \E commit_ok \in BOOLEAN :
          IF ~commit_ok
          THEN /\ Finish(p, Err(DbError("Database", "sqlx")), loc[p])
               /\ cache' = loc[p].tx
          ELSE /\ cache' = loc[p].tx
               /\ Finish(p, Ok([found |-> loc[p].found_count,
                                updated |-> loc[p].found_count,
                                deleted |-> loc[p].deleted_count]),
                         [loc[p] EXCEPT !.committed = TRUE])
    /\ UNCHANGED <<vault, config, pre, ops, last_sync, last_delete, wvars>>

\* tx.commit() and the returned SyncStats.
sync_vault_commit(p) ==
    /\ pc[p] = "sync_prune"
    /\ loc[p].ids_left = {}
    /\ \E commit_ok \in BOOLEAN :
          IF ~commit_ok
          THEN /\ Finish(p, Err(DbError("Database", "sqlx")), loc[p])
               /\ UNCHANGED cache
          ELSE /\ cache' = loc[p].tx
               /\ Finish(p, Ok([found |-> loc[p].found_count,
                                updated |-> loc[p].found_count,
                                deleted |-> loc[p].deleted_count]),
                         [loc[p] EXCEPT !.committed = TRUE])
    /\ UNCHANGED <<vault, config, pre, ops, last_sync, last_delete, wvars>>

sync_vault(p) ==
    \/ sync_vault_call(p)
    \/ sync_vault_begin(p)
    \/ sync_vault_upsert(p)
    \/ sync_vault_select(p)
    \/ sync_vault_prune(p)
    \/ sync_vault_commit(p)

\* previous_file_path differs from file_path: the save renames.
IsRename(l) == l.previous_file_path # NULL /\ l.previous_file_path # l.file_path

\* Variant of save_prompt_call: a rename onto an existing file is not refused.
save_prompt_call_skips_rename_check(p, prompt) ==
    /\ Call(p, "save_prompt")
    /\ \E config_ok \in BOOLEAN :
       \E gen \in generate_unique_file_path(vault, config.root_exists) :
          LET l == [IdleLoc EXCEPT !.cmd = "save_prompt", !.prompt = prompt]
              given == prompt.file_path # NULL /\ Trim(prompt.file_path) # <<>>
              file_path == IF given THEN normalize_relative_path(prompt.file_path)
                           ELSE normalize_relative_path(gen.val)
              prev_given == prompt.previous_file_path # NULL
                               /\ Trim(prompt.previous_file_path) # <<>>
              previous_file_path == normalize_relative_path(prompt.previous_file_path)
              prev_path == IF prev_given THEN previous_file_path.val ELSE NULL
          IN  IF ~config_ok
              THEN Finish(p, Err(DbError("Database", "Failed to load config")), l)
              ELSE IF config.vault_path = "NULL"
              THEN Finish(p, Err(DbError("Database", "Vault path not configured")), l)
              ELSE IF ~given /\ ~gen.ok
              THEN Finish(p, Err(DbError("Database", "Failed to generate filename")), l)
              ELSE IF ~file_path.ok
              THEN Finish(p, Err(DbError("Database", "Invalid file path")), l)
              ELSE IF prev_given /\ ~previous_file_path.ok
              THEN Finish(p, Err(DbError("Database", "Invalid previous path")), l)
              ELSE IF /\ prev_path = NULL
                      /\ Exists(vault, config.root_exists, file_path.val)
              THEN Finish(p, Err(DbError("Database", "File name already exists")),
                          [l EXCEPT !.file_path = file_path.val,
                                    !.previous_file_path = prev_path])
              ELSE /\ pc' = [pc EXCEPT ![p] = "save_write"]
                   /\ loc' = [loc EXCEPT ![p] =
                                 [l EXCEPT !.file_path = file_path.val,
                                           !.previous_file_path = prev_path]]
                   /\ UNCHANGED result
    /\ UNCHANGED <<vault, config, cache>>

\* save_prompt up to the collision check: config, target path, previous path.
save_prompt_call(p, prompt) ==
    /\ Call(p, "save_prompt")
    /\ \E config_ok \in BOOLEAN :
       \E gen \in generate_unique_file_path(vault, config.root_exists) :
          LET l == [IdleLoc EXCEPT !.cmd = "save_prompt", !.prompt = prompt]
              given == prompt.file_path # NULL /\ Trim(prompt.file_path) # <<>>
              file_path == IF given THEN normalize_relative_path(prompt.file_path)
                           ELSE normalize_relative_path(gen.val)
              prev_given == prompt.previous_file_path # NULL
                               /\ Trim(prompt.previous_file_path) # <<>>
              previous_file_path == normalize_relative_path(prompt.previous_file_path)
              prev_path == IF prev_given THEN previous_file_path.val ELSE NULL
          IN  IF ~config_ok
              THEN Finish(p, Err(DbError("Database", "Failed to load config")), l)
              ELSE IF config.vault_path = "NULL"
              THEN Finish(p, Err(DbError("Database", "Vault path not configured")), l)
              ELSE IF ~given /\ ~gen.ok
              THEN Finish(p, Err(DbError("Database", "Failed to generate filename")), l)
              ELSE IF ~file_path.ok
              THEN Finish(p, Err(DbError("Database", "Invalid file path")), l)
              ELSE IF prev_given /\ ~previous_file_path.ok
              THEN Finish(p, Err(DbError("Database", "Invalid previous path")), l)
              ELSE IF /\ (prev_path = NULL \/ prev_path # file_path.val)
                      /\ Exists(vault, config.root_exists, file_path.val)
              THEN Finish(p, Err(DbError("Database", "File name already exists")),
                          [l EXCEPT !.file_path = file_path.val,
                                    !.previous_file_path = prev_path])
              ELSE /\ pc' = [pc EXCEPT ![p] = "save_write"]
                   /\ loc' = [loc EXCEPT ![p] =
                                 [l EXCEPT !.file_path = file_path.val,
                                           !.previous_file_path = prev_path]]
                   /\ UNCHANGED result
    /\ UNCHANGED <<vault, config, cache>>

\* Variant of save_prompt_write: a failed write still goes on to the cache.
save_prompt_write_ignores_failure(p) ==
    /\ pc[p] = "save_write"
    /\ \E write_ok \in BOOLEAN :
          LET prompt == loc[p].prompt
              prompt_file == PromptFile(loc[p].file_path, prompt.tags, prompt.created,
                                        prompt.text, NULL, prompt.title, NULL)
              w == write_prompt_file(vault, config.root_exists, prompt_file,
                                     config.frontmatter, Now, write_ok)
          IN  IF ~w.ok
              THEN /\ pc' = [pc EXCEPT ![p] = "save_begin"]
                   /\ UNCHANGED <<vault, loc, result>>
              ELSE /\ vault' = w.vlt
                   /\ pc' = [pc EXCEPT ![p] = "save_begin"]
                   /\ loc' = [loc EXCEPT ![p].wrote = TRUE]
                   /\ UNCHANGED result
    /\ UNCHANGED <<config, cache, pre, ops, last_sync, last_delete, wvars>>

\* vault::write_prompt_file for the PromptFile built from the input.
save_prompt_write(p) ==
    /\ pc[p] = "save_write"
    /\ \E write_ok \in BOOLEAN :
          LET prompt == loc[p].prompt
              prompt_file == PromptFile(loc[p].file_path, prompt.tags, prompt.created,
                                        prompt.text, NULL, prompt.title, NULL)
              w == write_prompt_file(vault, config.root_exists, prompt_file,
                                     config.frontmatter, Now, write_ok)
          IN  IF ~w.ok
              THEN /\ Finish(p, Err(DbError("Database", "Failed to write to vault")), loc[p])
                   /\ UNCHANGED vault
              ELSE /\ vault' = w.vlt
                   /\ pc' = [pc EXCEPT ![p] = "save_begin"]
                   /\ loc' = [loc EXCEPT ![p].wrote = TRUE]
                   /\ UNCHANGED result
    /\ UNCHANGED <<config, cache, pre, ops, last_sync, last_delete, wvars>>

\* db.begin()
save_prompt_begin(p) ==
    /\ pc[p] = "save_begin"
    /\ WriteLockFree(p)
    /\ \E begin_ok \in BOOLEAN :
          IF ~begin_ok
          THEN Finish(p, Err(DbError("Database", "sqlx")), loc[p])
          ELSE /\ pc' = [pc EXCEPT ![p] = "save_delete_old"]
               /\ loc' = [loc EXCEPT ![p].tx = cache]
               /\ UNCHANGED result
    /\ UNCHANGED <<vault, config, cache, pre, ops, last_sync, last_delete, wvars>>

\* Variant of save_prompt_delete_old: the old row of a rename is kept.
save_prompt_delete_old_keeps_row(p) ==
    /\ pc[p] = "save_delete_old"
    /\ \E stmt_ok \in BOOLEAN :
          IF ~IsRename(loc[p])
          THEN /\ pc' = [pc EXCEPT ![p] = "save_upsert"]
               /\ UNCHANGED <<loc, result>>
          ELSE IF ~stmt_ok
          THEN Finish(p, Err(DbError("Database", "sqlx")), loc[p])
          ELSE /\ pc' = [pc EXCEPT ![p] = "save_upsert"]
               /\ UNCHANGED <<loc, result>>
    /\ UNCHANGED <<vault, config, cache, pre, ops, last_sync, last_delete, wvars>>

\* "Remove old prompt row if file was renamed".
save_prompt_delete_old(p) ==
    /\ pc[p] = "save_delete_old"
    /\ \E stmt_ok \in BOOLEAN :
          IF ~IsRename(loc[p])
          THEN /\ pc' = [pc EXCEPT ![p] = "save_upsert"]
               /\ UNCHANGED <<loc, result>>
          ELSE IF ~stmt_ok
          THEN Finish(p, Err(DbError("Database", "sqlx")), loc[p])
          ELSE /\ pc' = [pc EXCEPT ![p] = "save_upsert"]
               /\ loc' = [loc EXCEPT ![p].tx = DELETE_PROMPT(@, loc[p].previous_file_path)]
               /\ UNCHANGED result
    /\ UNCHANGED <<vault, config, cache, pre, ops, last_sync, last_delete, wvars>>

\* The file hash is read back from the vault, then "Upsert the prompt".
save_prompt_upsert(p) ==
    /\ pc[p] = "save_upsert"
    /\ \E stmt_ok \in BOOLEAN :
          LET prompt == loc[p].prompt
              file_path == loc[p].file_path
              file_hash == compute_file_hash_from_path(vault, config.root_exists, file_path)
              up == UPSERT_PROMPT(loc[p].tx, file_path, prompt.created, prompt.text,
                                  prompt.title, file_path, file_hash)
          IN  IF ~(stmt_ok /\ up.ok)
              THEN Finish(p, Err(DbError("Database", "sqlx")), loc[p])
              ELSE /\ pc' = [pc EXCEPT ![p] = "save_tags"]
                   /\ loc' = [loc EXCEPT ![p].tx = up.db]
                   /\ UNCHANGED result
    /\ UNCHANGED <<vault, config, cache, pre, ops, last_sync, last_delete, wvars>>

\* Variant of save_prompt_tags: the existing associations are not deleted first.
save_prompt_tags_merges(p) ==
    /\ pc[p] = "save_tags"
    /\ \E stmt_ok \in BOOLEAN :
          LET file_path == loc[p].file_path
              tg == InsertTags(loc[p].tx, file_path,
                               loc[p].prompt.tags)
          IN  IF ~(stmt_ok /\ tg.ok)
              THEN Finish(p, Err(DbError("Database", "sqlx")), loc[p])
              ELSE /\ pc' = [pc EXCEPT ![p] = "save_commit"]
                   /\ loc' = [loc EXCEPT ![p].tx = tg.db]
                   /\ UNCHANGED result
    /\ UNCHANGED <<vault, config, cache, pre, ops, last_sync, last_delete, wvars>>

\* "Delete existing tags", "Insert new tags".
save_prompt_tags(p) ==
    /\ pc[p] = "save_tags"
    /\ \E stmt_ok \in BOOLEAN :
          LET file_path == loc[p].file_path
              tg == InsertTags(DELETE_PROMPT_TAGS(loc[p].tx, file_path), file_path,
                               loc[p].prompt.tags)
          IN  IF ~(stmt_ok /\ tg.ok)
              THEN Finish(p, Err(DbError("Database", "sqlx")), loc[p])
              ELSE /\ pc' = [pc EXCEPT ![p] = "save_commit"]
                   /\ loc' = [loc EXCEPT ![p].tx = tg.db]
                   /\ UNCHANGED result
    /\ UNCHANGED <<vault, config, cache, pre, ops, last_sync, last_delete, wvars>>

\* Variant of save_prompt_commit: a failed commit still reaches the cleanup.
save_prompt_commit_ignores_failure(p) ==
    /\ pc[p] = "save_commit"
    /\ \E commit_ok \in BOOLEAN :
          IF ~commit_ok
          THEN /\ pc' = [pc EXCEPT ![p] = "save_cleanup"]
               /\ UNCHANGED <<cache, loc, result>>
          ELSE /\ cache' = loc[p].tx
               /\ pc' = [pc EXCEPT ![p] = "save_cleanup"]
               /\ loc' = [loc EXCEPT ![p].committed = TRUE]
               /\ UNCHANGED result
    /\ UNCHANGED <<vault, config, pre, ops, last_sync, last_delete, wvars>>

\* tx.commit()
save_prompt_commit(p) ==
    /\ pc[p] = "save_commit"
    /\ \E commit_ok \in BOOLEAN :
          IF ~commit_ok
          THEN /\ Finish(p, Err(DbError("Database", "sqlx")), loc[p])
               /\ UNCHANGED cache
          ELSE /\ cache' = loc[p].tx
               /\ pc' = [pc EXCEPT ![p] = "save_cleanup"]
               /\ loc' = [loc EXCEPT ![p].committed = TRUE]
               /\ UNCHANGED result
    /\ UNCHANGED <<vault, config, pre, ops, last_sync, last_delete, wvars>>

\* Variant of save_prompt_cleanup: a failed removal of the old file fails the save.
save_prompt_cleanup_propagates_error(p) ==
    /\ pc[p] = "save_cleanup"
    /\ \E remove_ok \in BOOLEAN :
          LET d == delete_prompt_file(vault, config.root_exists,
                                      loc[p].previous_file_path, remove_ok)
          IN  /\ vault' = IF IsRename(loc[p]) THEN d.vlt ELSE vault
              /\ Finish(p, IF IsRename(loc[p]) /\ ~d.ok
                           THEN Err(DbError("Database", "Failed to delete from vault"))
                           ELSE Ok(NoStats), loc[p])
    /\ UNCHANGED <<config, cache, pre, ops, last_sync, last_delete, wvars>>

\* After the commit: delete the old file of a rename, ignoring any error.
save_prompt_cleanup(p) ==
    /\ pc[p] = "save_cleanup"
    /\ \E remove_ok \in BOOLEAN :
          /\ vault' = IF IsRename(loc[p])
                      THEN delete_prompt_file(vault, config.root_exists,
                                              loc[p].previous_file_path, remove_ok).vlt
                      ELSE vault
          /\ Finish(p, Ok(NoStats), loc[p])
    /\ UNCHANGED <<config, cache, pre, ops, last_sync, last_delete, wvars>>

save_prompt(p) ==
    \/ \E prompt \in PromptInputs : save_prompt_call(p, prompt)
    \/ save_prompt_write(p)
    \/ save_prompt_begin(p)
    \/ save_prompt_delete_old(p)
    \/ save_prompt_upsert(p)
    \/ save_prompt_tags(p)
    \/ save_prompt_commit(p)
    \/ save_prompt_cleanup(p)


\* SELECT_PROMPT_BY_ID and `row.file_path`: the path stored with the row (the
\* fifth value bound by the upsert), None when there is no row.
RowFilePath(db, id) ==
    IF id \in DOMAIN db.prompts THEN db.prompts[id].description ELSE NULL

\* delete_prompt up to the row lookup: config, vault path, SELECT by id.
delete_prompt_call(p, id) ==
    /\ Call(p, "delete_prompt")
    /\ \E config_ok \in BOOLEAN, select_ok \in BOOLEAN :
          LET l == [IdleLoc EXCEPT !.cmd = "delete_prompt", !.id = id]
              file_path == RowFilePath(cache, id)
          IN  IF ~config_ok
              THEN Finish(p, Err(DbError("Database", "Failed to load config")), l)
              ELSE IF config.vault_path = "NULL"
              THEN Finish(p, Err(DbError("Database", "Vault path not configured")), l)
              ELSE IF ~select_ok
              THEN Finish(p, Err(DbError("Database", "sqlx")), l)
              ELSE /\ pc' = [pc EXCEPT ![p] = "delete_file"]
                   /\ loc' = [loc EXCEPT ![p] =
                                 [l EXCEPT !.file_path =
                                     IF file_path # NULL THEN file_path ELSE id]]
                   /\ UNCHANGED result
    /\ UNCHANGED <<vault, config, cache>>

\* Variant of delete_prompt_file_step: a missing file fails the delete.
delete_prompt_file_step_absent_is_fatal(p) ==
    /\ pc[p] = "delete_file"
    /\ \E remove_ok \in BOOLEAN :
          LET d == delete_prompt_file(vault, config.root_exists, loc[p].file_path, remove_ok)
          IN  IF ~d.ok
              THEN /\ Finish(p, Err(DbError("Database", "Failed to delete from vault")), loc[p])
                   /\ UNCHANGED vault
              ELSE /\ vault' = d.vlt
                   /\ pc' = [pc EXCEPT ![p] = "delete_row"]
                   /\ UNCHANGED <<loc, result>>
    /\ UNCHANGED <<config, cache, pre, ops, last_sync, last_delete, wvars>>

\* Variant of delete_prompt_file_step: every error of the vault delete is tolerated.
delete_prompt_file_step_ignores_errors(p) ==
    /\ pc[p] = "delete_file"
    /\ \E remove_ok \in BOOLEAN :
          LET d == delete_prompt_file(vault, config.root_exists, loc[p].file_path, remove_ok)
          IN  IF FALSE
              THEN /\ Finish(p, Err(DbError("Database", "Failed to delete from vault")), loc[p])
                   /\ UNCHANGED vault
              ELSE /\ vault' = d.vlt
                   /\ pc' = [pc EXCEPT ![p] = "delete_row"]
                   /\ UNCHANGED <<loc, result>>
    /\ UNCHANGED <<config, cache, pre, ops, last_sync, last_delete, wvars>>

\* "Delete from Filesystem": PathNotFound is tolerated, any other error returns.
delete_prompt_file_step(p) ==
    /\ pc[p] = "delete_file"
    /\ \E remove_ok \in BOOLEAN :
          LET d == delete_prompt_file(vault, config.root_exists, loc[p].file_path, remove_ok)
          IN  IF ~d.ok /\ d.err.kind # "PathNotFound"
              THEN /\ Finish(p, Err(DbError("Database", "Failed to delete from vault")), loc[p])
                   /\ UNCHANGED vault
              ELSE /\ vault' = d.vlt
                   /\ pc' = [pc EXCEPT ![p] = "delete_row"]
                   /\ UNCHANGED <<loc, result>>
    /\ UNCHANGED <<config, cache, pre, ops, last_sync, last_delete, wvars>>

\* "Delete from Database (Cache)": DELETE_PROMPT bound to the id as given.
delete_prompt_row(p) ==
    /\ pc[p] = "delete_row"
    /\ WriteLockFree(p)
    /\ \E stmt_ok \in BOOLEAN :
          IF ~stmt_ok
          THEN /\ Finish(p, Err(DbError("Database", "sqlx")), loc[p])
               /\ UNCHANGED cache
          ELSE /\ cache' = DELETE_PROMPT(cache, loc[p].id)
               /\ Finish(p, Ok(NoStats), loc[p])
    /\ UNCHANGED <<vault, config, pre, ops, last_sync, last_delete, wvars>>

delete_prompt(p) ==
    \/ \E id \in DeleteIds : delete_prompt_call(p, id)
    \/ delete_prompt_file_step(p)
    \/ delete_prompt_row(p)


\* The command read_prompt_file: config, vault path, find_prompt_by_id.
read_prompt_file_cmd(p, id) ==
    /\ Call(p, "read_prompt_file")
    /\ \E config_ok \in BOOLEAN :
          LET l == [IdleLoc EXCEPT !.cmd = "read_prompt_file", !.id = id]
              r == find_prompt_by_id(vault, config.root_exists, id, config.frontmatter)
          IN  IF ~config_ok
              THEN Finish(p, Err(VaultError("IoError", "config")), l)
              ELSE IF config.vault_path = "NULL"
              THEN Finish(p, Err(VaultError("NotConfigured", "vault path")), l)
              ELSE IF ~r.ok
              THEN Finish(p, Err(r.err), l)
              ELSE Finish(p, Ok(NoStats), [l EXCEPT !.read = r.val])
    /\ UNCHANGED <<vault, config, cache>>

\* The command write_prompt_file: config, vault path, vault::write_prompt_file.
write_prompt_file_cmd(p, prompt) ==
    /\ Call(p, "write_prompt_file")
    /\ \E config_ok \in BOOLEAN, write_ok \in BOOLEAN :
          LET l == [IdleLoc EXCEPT !.cmd = "write_prompt_file", !.file = prompt]
              w == write_prompt_file(vault, config.root_exists, prompt,
                                     config.frontmatter, Now, write_ok)
          IN  IF ~config_ok
              THEN Finish(p, Err(VaultError("IoError", "config")), l) /\ UNCHANGED vault
              ELSE IF config.vault_path = "NULL"
              THEN /\ Finish(p, Err(VaultError("NotConfigured", "vault path")), l)
                   /\ UNCHANGED vault
              ELSE IF ~w.ok
              THEN Finish(p, Err(w.err), l) /\ UNCHANGED vault
              ELSE /\ vault' = w.vlt
                   /\ Finish(p, Ok(NoStats), [l EXCEPT !.wrote = TRUE])
    /\ UNCHANGED <<config, cache>>

\* The command delete_prompt_file: config, vault path, vault::delete_prompt_file.
delete_prompt_file_cmd(p, id) ==
    /\ Call(p, "delete_prompt_file")
    /\ \E config_ok \in BOOLEAN, remove_ok \in BOOLEAN :
          LET l == [IdleLoc EXCEPT !.cmd = "delete_prompt_file", !.id = id]
              d == delete_prompt_file(vault, config.root_exists, id, remove_ok)
          IN  IF ~config_ok
              THEN Finish(p, Err(VaultError("IoError", "config")), l) /\ UNCHANGED vault
              ELSE IF config.vault_path = "NULL"
              THEN /\ Finish(p, Err(VaultError("NotConfigured", "vault path")), l)
                   /\ UNCHANGED vault
              ELSE IF ~d.ok
              THEN Finish(p, Err(d.err), l) /\ UNCHANGED vault
              ELSE /\ vault' = d.vlt
                   /\ Finish(p, Ok(NoStats), l)
    /\ UNCHANGED <<config, cache>>

\* --------------------------------------------------------------------------
\* The vault watcher (vault_watcher.rs)
\* --------------------------------------------------------------------------

\* The configurations the watcher is started under. root_exists tells
\* whether the directory vault_path names exists.
WatchConfigs ==
    { [vault_path |-> v, root_exists |-> (v \in {"vault", "other"}),
       frontmatter |-> [prompt_tags_property |-> "tags", add_prompts_tag_to_tags |-> FALSE]]
      : v \in {"vault", "other", "missing", "NULL"} }

\* The command save_config: the configuration file is rewritten.
save_config_cmd(p, cfg) ==
    /\ Call(p, "save_config")
    /\ \E write_ok \in BOOLEAN :
          LET l == [IdleLoc EXCEPT !.cmd = "save_config"]
          IN  IF ~write_ok
              THEN Finish(p, Err(ConfigError("IoError", "config")), l) /\ UNCHANGED config
              ELSE /\ config' = cfg
                   /\ Finish(p, Ok(NoStats), l)
    /\ UNCHANGED <<vault, cache>>

\* The command start_vault_watch up to the early return of
\* vault_watcher::start_vault_watch: config, vault path, the root exists, and
\* nothing to do when the same path is recorded with a watcher.
start_vault_watch_call(p) ==
    /\ Call(p, "start_vault_watch")
    /\ \E config_ok \in BOOLEAN :
          LET l == [IdleLoc EXCEPT !.cmd = "start_vault_watch",
                                   !.vault_path = config.vault_path]
          IN  IF ~config_ok
              THEN Finish(p, Err(VaultError("IoError", "config")), l)
              ELSE IF config.vault_path = "NULL"
              THEN Finish(p, Err(VaultError("NotConfigured", "vault path")), l)
              ELSE IF ~config.root_exists
              THEN Finish(p, Err(VaultError("PathNotFound", "vault path")), l)
              ELSE IF watcher_state.path = config.vault_path
                      /\ watcher_state.watcher # NoWatcher
              THEN Finish(p, Ok(NoStats), l)
              ELSE /\ pc' = [pc EXCEPT ![p] = "watch"]
                   /\ loc' = [loc EXCEPT ![p] = l]
                   /\ UNCHANGED result
    /\ UNCHANGED <<vault, config, cache>>

\* Variant of start_vault_watch_watch: the recorded watcher and path are taken
\* out of the state before the new watcher is built.
start_vault_watch_watch_takes_old_first(p) ==
    /\ pc[p] = "watch"
    /\ \E create_ok \in BOOLEAN, watch_ok \in BOOLEAN :
          IF ~create_ok \/ ~watch_ok
          THEN /\ Finish(p, Err(VaultError("IoError", "notify")), loc[p])
               /\ notify' = [created |-> IF create_ok THEN notify.created + 1
                                           ELSE notify.created,
                             watchers |-> {w \in notify.watchers :
                                              w.id # watcher_state.watcher}]
               /\ watcher_state' = [watcher_state EXCEPT !.watcher = NoWatcher,
                                                         !.path = "NULL"]
          ELSE /\ notify' = [created |-> notify.created + 1,
                             watchers |-> notify.watchers
                                 \cup {[id |-> notify.created + 1, path |-> loc[p].vault_path]}]
               /\ pc' = [pc EXCEPT ![p] = "install"]
               /\ loc' = [loc EXCEPT ![p].watcher = notify.created + 1]
               /\ UNCHANGED <<result, watcher_state>>
    /\ UNCHANGED <<vault, config, cache, pre, ops, last_sync, last_delete,
                   now, events, emitted>>

\* notify::recommended_watcher and Watcher::watch: on an error the command
\* returns it and the new watcher, if built, is dropped; otherwise the new
\* watcher observes vault_path from here on.
start_vault_watch_watch(p) ==
    /\ pc[p] = "watch"
    /\ \E create_ok \in BOOLEAN, watch_ok \in BOOLEAN :
          IF ~create_ok \/ ~watch_ok
          THEN /\ Finish(p, Err(VaultError("IoError", "notify")), loc[p])
               /\ notify' = [notify EXCEPT !.created = IF create_ok THEN @ + 1 ELSE @]
          ELSE /\ notify' = [created |-> notify.created + 1,
                             watchers |-> notify.watchers
                                 \cup {[id |-> notify.created + 1, path |-> loc[p].vault_path]}]
               /\ pc' = [pc EXCEPT ![p] = "install"]
               /\ loc' = [loc EXCEPT ![p].watcher = notify.created + 1]
               /\ UNCHANGED result
    /\ UNCHANGED <<vault, config, cache, pre, ops, last_sync, last_delete,
                   watcher_state, now, events, emitted>>

\* Variant of start_vault_watch_install: the watcher recorded before stays alive.
start_vault_watch_install_keeps_old(p) ==
    /\ pc[p] = "install"
    /\ watcher_state' = [watcher_state EXCEPT !.path = loc[p].vault_path,
                                              !.watcher = loc[p].watcher]
    /\ notify' = notify
    /\ Finish(p, Ok(NoStats), loc[p])
    /\ UNCHANGED <<vault, config, cache, pre, ops, last_sync, last_delete,
                   now, events, emitted>>

\* The path and the watcher are recorded; the watcher recorded before is
\* dropped, which ends its watch.
start_vault_watch_install(p) ==
    /\ pc[p] = "install"
    /\ watcher_state' = [watcher_state EXCEPT !.path = loc[p].vault_path,
                                              !.watcher = loc[p].watcher]
    /\ notify' = [notify EXCEPT !.watchers = {w \in @ : w.id # watcher_state.watcher}]
    /\ Finish(p, Ok(NoStats), loc[p])
    /\ UNCHANGED <<vault, config, cache, pre, ops, last_sync, last_delete,
                   now, events, emitted>>

\* Variant of watcher_callback: last_emit is not advanced on an emission.
watcher_callback_keeps_last_emit(w, res_ok) ==
    /\ w \in notify.watchers
    /\ Len(events) < MaxEvents
    /\ events' = Append(events, [at |-> now, ok |-> res_ok])
    /\ IF ~res_ok
       THEN UNCHANGED <<watcher_state, emitted>>
       ELSE IF now - watcher_state.last_emit < Debounce
       THEN UNCHANGED <<watcher_state, emitted>>
       ELSE /\ watcher_state' = watcher_state
            /\ emitted' = Append(emitted, [at |-> now, event |-> Len(events) + 1])
    /\ UNCHANGED <<vault, config, cache, pc, loc, result, pre, ops, last_sync,
                   last_delete, notify, now>>

\* Variant of watcher_callback: an accepted or dropped event also starts a command.
watcher_callback_starts_sync(w, res_ok) ==
    /\ w \in notify.watchers
    /\ Len(events) < MaxEvents
    /\ events' = Append(events, [at |-> now, ok |-> res_ok])
    /\ IF ~res_ok
       THEN UNCHANGED <<watcher_state, emitted>>
       ELSE IF now - watcher_state.last_emit < Debounce
       THEN UNCHANGED <<watcher_state, emitted>>
       ELSE /\ watcher_state' = [watcher_state EXCEPT !.last_emit = now]
            /\ emitted' = Append(emitted, [at |-> now, event |-> Len(events) + 1])
    /\ pc' = [q \in Procs |-> IF pc[q] = "idle" THEN "begin" ELSE pc[q]]
    /\ UNCHANGED <<vault, config, cache, loc, result, pre, ops, last_sync,
                   last_delete, notify, now>>

\* The closure a watcher calls with each result. An error result returns at
\* once; within Debounce of last_emit the event is dropped; otherwise
\* last_emit is set and "vault-changed" is emitted. The lock on last_emit is
\* held to the end, so the closure runs as one step; no thread panics while
\* holding it, so it is never poisoned.
watcher_callback(w, res_ok) ==
    /\ w \in notify.watchers
    /\ Len(events) < MaxEvents
    /\ events' = Append(events, [at |-> now, ok |-> res_ok])
    /\ IF ~res_ok
       THEN UNCHANGED <<watcher_state, emitted>>
       ELSE IF now - watcher_state.last_emit < Debounce
       THEN UNCHANGED <<watcher_state, emitted>>
       ELSE /\ watcher_state' = [watcher_state EXCEPT !.last_emit = now]
            /\ emitted' = Append(emitted, [at |-> now, event |-> Len(events) + 1])
    /\ UNCHANGED <<vault, config, cache, pc, loc, result, pre, ops, last_sync,
                   last_delete, notify, now>>

\* Time passes.
Tick(d) ==
    /\ now + d <= MaxTime
    /\ now' = now + d
    /\ UNCHANGED <<vault, config, cache, pc, loc, result, pre, ops, last_sync,
                   last_delete, watcher_state, notify, events, emitted>>


\* Where a thread stands while it holds state.watcher, state.path and
\* last_emit: a MutexGuard lives to the end of its function.
WatcherLockHolders == {"lock_path", "locked", "watch", "install"}
PathLockHolders == {"locked", "watch", "install"}
LastEmitLockHolders == {"cb_check", "cb_update", "cb_emit"}

\* The command start_vault_watch up to the call of
\* vault_watcher::start_vault_watch: config, vault path, the root exists.
start_vault_watch_enter(p) ==
    /\ Call(p, "start_vault_watch")
    /\ \E config_ok \in BOOLEAN :
          LET l == [IdleLoc EXCEPT !.cmd = "start_vault_watch",
                                   !.vault_path = config.vault_path]
          IN  IF ~config_ok
              THEN Finish(p, Err(VaultError("IoError", "config")), l)
              ELSE IF config.vault_path = "NULL"
              THEN Finish(p, Err(VaultError("NotConfigured", "vault path")), l)
              ELSE IF ~config.root_exists
              THEN Finish(p, Err(VaultError("PathNotFound", "vault path")), l)
              ELSE /\ pc' = [pc EXCEPT ![p] = "lock_watcher"]
                   /\ loc' = [loc EXCEPT ![p] = l]
                   /\ UNCHANGED result
    /\ UNCHANGED <<vault, config, cache>>

\* state.watcher.lock(): the thread waits while another holds the mutex.
start_vault_watch_lock_watcher(p) ==
    /\ pc[p] = "lock_watcher"
    /\ \A q \in (DOMAIN pc) \ {p} : pc[q] \notin WatcherLockHolders
    /\ pc' = [pc EXCEPT ![p] = "lock_path"]
    /\ UNCHANGED <<vault, config, cache, loc, result, pre, ops, last_sync, last_delete,
                   wvars>>

\* state.path.lock(), with the watcher mutex held.
start_vault_watch_lock_path(p) ==
    /\ pc[p] = "lock_path"
    /\ \A q \in (DOMAIN pc) \ {p} : pc[q] \notin PathLockHolders
    /\ pc' = [pc EXCEPT ![p] = "locked"]
    /\ UNCHANGED <<vault, config, cache, loc, result, pre, ops, last_sync, last_delete,
                   wvars>>

\* Nothing to do when the same path is recorded with a watcher.
start_vault_watch_check(p) ==
    /\ pc[p] = "locked"
    /\ IF watcher_state.path = loc[p].vault_path /\ watcher_state.watcher # NoWatcher
       THEN Finish(p, Ok(NoStats), loc[p])
       ELSE /\ pc' = [pc EXCEPT ![p] = "watch"]
            /\ UNCHANGED <<loc, result>>
    /\ UNCHANGED <<vault, config, cache, pre, ops, last_sync, last_delete, wvars>>

\* A watcher's thread calls the closure with a result: an error result
\* returns at once, another goes on to last_emit.lock().
callback_begin(t, w, res_ok) ==
    /\ pc[t] = "idle"
    /\ w \in notify.watchers
    /\ Len(events) < MaxCallbacks
    /\ events' = Append(events, [at |-> now, ok |-> res_ok])
    /\ IF ~res_ok
       THEN UNCHANGED <<pc, loc>>
       ELSE /\ pc' = [pc EXCEPT ![t] = "cb_lock"]
            /\ loc' = [loc EXCEPT ![t].event = Len(events) + 1, ![t].watcher = w.id]
    /\ UNCHANGED <<vault, config, cache, result, pre, ops, last_sync, last_delete,
                   watcher_state, notify, now, emitted>>

\* last_emit.lock() as it would be if the closure did not wait for the holder.
callback_lock_unguarded(t) ==
    /\ pc[t] = "cb_lock"
    /\ pc' = [pc EXCEPT ![t] = "cb_check"]
    /\ UNCHANGED <<vault, config, cache, loc, result, pre, ops, last_sync, last_delete,
                   wvars>>

\* last_emit.lock(): the closure waits while another closure holds the mutex.
callback_lock(t) ==
    /\ pc[t] = "cb_lock"
    /\ \A q \in (DOMAIN pc) \ {t} : pc[q] \notin LastEmitLockHolders
    /\ pc' = [pc EXCEPT ![t] = "cb_check"]
    /\ UNCHANGED <<vault, config, cache, loc, result, pre, ops, last_sync, last_delete,
                   wvars>>

\* last.elapsed() < 250 ms: the closure returns and the guard is dropped.
callback_check(t) ==
    /\ pc[t] = "cb_check"
    /\ IF now - watcher_state.last_emit < Debounce
       THEN /\ pc' = [pc EXCEPT ![t] = "idle"]
            /\ loc' = [loc EXCEPT ![t] = IdleLoc]
       ELSE /\ pc' = [pc EXCEPT ![t] = "cb_update"]
            /\ UNCHANGED loc
    /\ UNCHANGED <<vault, config, cache, result, pre, ops, last_sync, last_delete, wvars>>

\* *last = Instant::now()
callback_update(t) ==
    /\ pc[t] = "cb_update"
    /\ watcher_state' = [watcher_state EXCEPT !.last_emit = now]
    /\ pc' = [pc EXCEPT ![t] = "cb_emit"]
    /\ UNCHANGED <<vault, config, cache, loc, result, pre, ops, last_sync, last_delete,
                   notify, now, events, emitted>>

\* app_handle.emit("vault-changed"), its result ignored: the notification
\* goes out now and stamp is the time line 56 stored in last_emit. The guard
\* is dropped.
callback_emit(t) ==
    /\ pc[t] = "cb_emit"
    /\ emitted' = Append(emitted, [at |-> now, event |-> loc[t].event,
                                    stamp |-> watcher_state.last_emit])
    /\ pc' = [pc EXCEPT ![t] = "idle"]
    /\ loc' = [loc EXCEPT ![t] = IdleLoc]
    /\ UNCHANGED <<vault, config, cache, result, pre, ops, last_sync, last_delete,
                   watcher_state, notify, now, events>>

\* The command scan_vault: config, vault path, vault::scan_vault.
scan_vault_cmd(p) ==
    /\ Call(p, "scan_vault")
    /\ \E config_ok \in BOOLEAN, read_dir_ok \in BOOLEAN :
          LET l == [IdleLoc EXCEPT !.cmd = "scan_vault"]
              files == scan_vault(vault, config.root_exists, config.frontmatter, read_dir_ok)
          IN  IF ~config_ok
              THEN Finish(p, Err(VaultError("IoError", "config")), l)
              ELSE IF config.vault_path = "NULL"
              THEN Finish(p, Err(VaultError("NotConfigured", "vault path")), l)
              ELSE IF ~files.ok
              THEN Finish(p, Err(files.err), l)
              ELSE Finish(p, Ok(NoStats), [l EXCEPT !.scanned = files.val])
    /\ UNCHANGED <<vault, config, cache>>

\* --------------------------------------------------------------------------
\* Unique-name generation, one attempt at a time (vault.rs)
\* --------------------------------------------------------------------------

\* The names the generator draws from: "<date>-<6 hex>.md".
GenCandidates == { G, <<"h", ".", "m", "d">> }

\* generate_unique_file_path is entered.
generate_unique_file_path_call(p) ==
    /\ Call(p, "generate_unique_file_path")
    /\ pc' = [pc EXCEPT ![p] = "generate"]
    /\ loc' = [loc EXCEPT ![p] = [IdleLoc EXCEPT !.cmd = "generate_unique_file_path"]]
    /\ UNCHANGED <<vault, config, cache, result>>

\* Variant of generate_unique_file_path_attempt: after the first pass a
\* candidate is returned without the check.
generate_unique_file_path_attempt_unchecked(p, candidate) ==
    /\ pc[p] = "generate"
    /\ loc[p].attempts < MaxAttempts
    /\ IF loc[p].attempts > 0 \/ ~Exists(vault, config.root_exists, candidate)
       THEN Finish(p, Ok(NoStats), [loc[p] EXCEPT !.attempts = @ + 1,
                                                  !.file_path = candidate])
       ELSE /\ loc' = [loc EXCEPT ![p].attempts = @ + 1, ![p].collisions = @ + 1]
            /\ UNCHANGED <<pc, result>>
    /\ UNCHANGED <<vault, config, cache, pre, ops, last_sync, last_delete, wvars>>

\* One pass of the loop: a candidate is drawn and returned if no file of that
\* name exists now; otherwise the next pass follows.
generate_unique_file_path_attempt(p, candidate) ==
    /\ pc[p] = "generate"
    /\ loc[p].attempts < MaxAttempts
    /\ IF ~Exists(vault, config.root_exists, candidate)
       THEN Finish(p, Ok(NoStats), [loc[p] EXCEPT !.attempts = @ + 1,
                                                  !.file_path = candidate])
       ELSE /\ loc' = [loc EXCEPT ![p].attempts = @ + 1, ![p].collisions = @ + 1]
            /\ UNCHANGED <<pc, result>>
    /\ UNCHANGED <<vault, config, cache, pre, ops, last_sync, last_delete, wvars>>

\* The loop is over without a free name.
generate_unique_file_path_give_up(p) ==
    /\ pc[p] = "generate"
    /\ loc[p].attempts >= MaxAttempts
    /\ Finish(p, Err(VaultError("FileAlreadyExists", "Failed to generate unique filename")),
              loc[p])
    /\ UNCHANGED <<vault, config, cache, pre, ops, last_sync, last_delete, wvars>>


\* The byte order of the characters tag names are made of.
Alphabet == <<" ", "#", ",", "f", "g", "prompts", "t", "v", "x", "y", "z">>

Rank(c) == CHOOSE i \in 1..Len(Alphabet) : Alphabet[i] = c

RECURSIVE NameLess(_, _)
\* SQLite's BINARY collation of two names.
NameLess(a, b) ==
    IF b = <<>> THEN FALSE
    ELSE IF a = <<>> THEN TRUE
    ELSE IF Head(a) = Head(b) THEN NameLess(Tail(a), Tail(b))
    ELSE Rank(Head(a)) < Rank(Head(b))

RECURSIVE SortNames(_)
SortNames(names) ==
    IF names = {} THEN <<>>
    ELSE LET first == CHOOSE x \in names : \A y \in names \ {x} : NameLess(x, y)
         IN  <<first>> \o SortNames(names \ {first})

\* SELECT_TAGS_FOR_PROMPT ... ORDER BY t.name
get_tags_for_prompt(db, prompt_id) == SortNames(TagsForPrompt(db, prompt_id))

\* duplicate_prompt up to the original's row: config, SELECT_PROMPT_BY_ID.
\* Without a row the command returns Ok(None).
duplicate_prompt_call(p, id) ==
    /\ Call(p, "duplicate_prompt")
    /\ \E config_ok \in BOOLEAN, stmt_ok \in BOOLEAN :
          LET l == [IdleLoc EXCEPT !.cmd = "duplicate_prompt", !.id = id]
          IN  IF ~config_ok
              THEN Finish(p, Err(DbError("Database", "Failed to load config")), l)
              ELSE IF config.vault_path = "NULL"
              THEN Finish(p, Err(DbError("Database", "Vault path not configured")), l)
              ELSE IF ~stmt_ok
              THEN Finish(p, Err(DbError("Database", "sqlx")), l)
              ELSE IF id \notin DOMAIN cache.prompts
              THEN Finish(p, Ok(NoStats), l)
              ELSE /\ pc' = [pc EXCEPT ![p] = "dup_tags"]
                   /\ loc' = [loc EXCEPT ![p] =
                                 [l EXCEPT !.prompt.text = cache.prompts[id].text,
                                           !.prompt.title = cache.prompts[id].title]]
                   /\ UNCHANGED result
    /\ UNCHANGED <<vault, config, cache>>

\* get_tags_for_prompt(row.id) and new_created.
duplicate_prompt_tags(p) ==
    /\ pc[p] = "dup_tags"
    /\ \E stmt_ok \in BOOLEAN :
          IF ~stmt_ok
          THEN Finish(p, Err(DbError("Database", "sqlx")), loc[p])
          ELSE /\ pc' = [pc EXCEPT ![p] = "dup_generate"]
               /\ loc' = [loc EXCEPT ![p].prompt.tags = get_tags_for_prompt(cache, loc[p].id),
                                     ![p].prompt.created = Now]
               /\ UNCHANGED result
    /\ UNCHANGED <<vault, config, cache, pre, ops, last_sync, last_delete, wvars>>

\* vault::generate_unique_file_path
duplicate_prompt_generate(p) ==
    /\ pc[p] = "dup_generate"
    /\ \E gen \in generate_unique_file_path(vault, config.root_exists) :
          IF ~gen.ok
          THEN Finish(p, Err(DbError("Database", "Failed to generate filename")), loc[p])
          ELSE /\ pc' = [pc EXCEPT ![p] = "dup_write"]
               /\ loc' = [loc EXCEPT ![p].file_path = gen.val]
               /\ UNCHANGED result
    /\ UNCHANGED <<vault, config, cache, pre, ops, last_sync, last_delete, wvars>>

\* "Write to Filesystem": the copy, under the generated name.
duplicate_prompt_write(p) ==
    /\ pc[p] = "dup_write"
    /\ \E write_ok \in BOOLEAN :
          LET prompt == loc[p].prompt
              prompt_file == PromptFile(loc[p].file_path, prompt.tags, prompt.created,
                                        prompt.text, NULL, prompt.title, NULL)
              w == write_prompt_file(vault, config.root_exists, prompt_file,
                                     config.frontmatter, Now, write_ok)
          IN  IF ~w.ok
              THEN /\ Finish(p, Err(DbError("Database", "Failed to write to vault")), loc[p])
                   /\ UNCHANGED vault
              ELSE /\ vault' = w.vlt
                   /\ pc' = [pc EXCEPT ![p] = "dup_tx"]
                   /\ loc' = [loc EXCEPT ![p].wrote = TRUE]
                   /\ UNCHANGED result
    /\ UNCHANGED <<config, cache, pre, ops, last_sync, last_delete, wvars>>

\* The transaction of duplicate_prompt: begin, UPSERT_PROMPT (mode bound to
\* None), the tag loop, commit. It holds the write lock from its first
\* statement to its end and touches nothing else.
duplicate_prompt_tx(p) ==
    /\ pc[p] = "dup_tx"
    /\ WriteLockFree(p)
    /\ \E begin_ok \in BOOLEAN, stmt_ok \in BOOLEAN, commit_ok \in BOOLEAN :
          LET prompt == loc[p].prompt
              file_path == loc[p].file_path
              up == UPSERT_PROMPT(cache, file_path, prompt.created, prompt.text,
                                  prompt.title, file_path, NULL)
              tg == InsertTags(up.db, file_path, prompt.tags)
          IN  IF ~(begin_ok /\ stmt_ok /\ up.ok /\ tg.ok /\ commit_ok)
              THEN /\ Finish(p, Err(DbError("Database", "sqlx")), loc[p])
                   /\ UNCHANGED cache
              ELSE /\ cache' = tg.db
                   /\ Finish(p, Ok(NoStats), [loc[p] EXCEPT !.committed = TRUE])
    /\ UNCHANGED <<vault, config, pre, ops, last_sync, last_delete, wvars>>

duplicate_prompt(p) ==
    \/ \E id \in DeleteIds : duplicate_prompt_call(p, id)
    \/ duplicate_prompt_tags(p)
    \/ duplicate_prompt_generate(p)
    \/ duplicate_prompt_write(p)
    \/ duplicate_prompt_tx(p)

Env ==
    /\ AllIdle
    /\ \E name \in {A, B} :
          \/ \E file \in ExternalFiles : EnvWrite(name, file)
          \/ EnvDelete(name)

Next ==
    \/ Env
    \/ \E p \in Procs : AllIdle /\ sync_vault_call(p)
    \/ \E p \in Procs, prompt \in PromptInputs : AllIdle /\ save_prompt_call(p, prompt)
    \/ \E p \in Procs, id \in DeleteIds : AllIdle /\ delete_prompt_call(p, id)
    \/ \E p \in Procs, id \in VaultIds : AllIdle /\ read_prompt_file_cmd(p, id)
    \/ \E p \in Procs, prompt \in WriteInputs : AllIdle /\ write_prompt_file_cmd(p, prompt)
    \/ \E p \in Procs, id \in VaultIds : AllIdle /\ delete_prompt_file_cmd(p, id)
    \/ \E p \in Procs : AllIdle /\ scan_vault_cmd(p)
    \/ \E p \in Procs : AllIdle /\ start_vault_watch_call(p)
    \/ \E p \in Procs :
          \/ start_vault_watch_watch(p)
          \/ start_vault_watch_install(p)
          \/ sync_vault_begin(p)
          \/ sync_vault_upsert(p)
          \/ sync_vault_select(p)
          \/ sync_vault_prune(p)
          \/ sync_vault_commit(p)
          \/ save_prompt_write(p)
          \/ save_prompt_begin(p)
          \/ save_prompt_delete_old(p)
          \/ save_prompt_upsert(p)
          \/ save_prompt_tags(p)
          \/ save_prompt_commit(p)
          \/ save_prompt_cleanup(p)
          \/ delete_prompt_file_step(p)
          \/ delete_prompt_row(p)
          \/ Return(p)


\* The commands called with the ids of PathIds, one at a time.
NextPath ==
    \/ \E p \in Procs : AllIdle /\ sync_vault_call(p)
    \/ \E p \in Procs, prompt \in PathSaveInputs : AllIdle /\ save_prompt_call(p, prompt)
    \/ \E p \in Procs, id \in PathIds : AllIdle /\ delete_prompt_call(p, id)
    \/ \E p \in Procs, id \in PathIds : AllIdle /\ read_prompt_file_cmd(p, id)
    \/ \E p \in Procs, prompt \in PathWriteInputs : AllIdle /\ write_prompt_file_cmd(p, prompt)
    \/ \E p \in Procs, id \in PathIds : AllIdle /\ delete_prompt_file_cmd(p, id)
    \/ \E p \in Procs :
          \/ sync_vault_begin(p)
          \/ sync_vault_upsert(p)
          \/ sync_vault_select(p)
          \/ sync_vault_prune(p)
          \/ sync_vault_commit(p)
          \/ save_prompt_write(p)
          \/ save_prompt_begin(p)
          \/ save_prompt_delete_old(p)
          \/ save_prompt_upsert(p)
          \/ save_prompt_tags(p)
          \/ save_prompt_commit(p)
          \/ save_prompt_cleanup(p)
          \/ delete_prompt_file_step(p)
          \/ delete_prompt_row(p)
          \/ Return(p)

SpecPath == Init /\ [][NextPath]_vars


\* The codec applied to the file A: the vault starts with one of CodecFiles
\* (or nothing) at A and the vault commands write and read it.
InitCodec ==
    /\ vault \in {v \in [FileNames -> {NoFile} \cup CodecFiles] :
                       \A n \in FileNames \ {A} : v[n] = NoFile}
    /\ config \in CodecConfigs
    /\ cache = EmptyDb
    /\ pc = [p \in Procs |-> "idle"]
    /\ loc = [p \in Procs |-> IdleLoc]
    /\ result = [p \in Procs |-> NoResult]
    /\ pre = [p \in Procs |-> NoPre]
    /\ ops = 0
    /\ last_sync = NoLastSync
    /\ last_delete = NoLastDelete
    /\ WatcherInit

NextCodec ==
    \/ \E p \in Procs, prompt \in CodecPrompts : AllIdle /\ write_prompt_file_cmd(p, prompt)
    \/ \E p \in Procs : AllIdle /\ read_prompt_file_cmd(p, A)
    \/ \E p \in Procs : Return(p)

\* The watcher: the vault path is configured and reconfigured, the watch is
\* started, watchers deliver results and time passes.
InitWatch ==
    /\ vault = [n \in FileNames |-> NoFile]
    /\ config \in WatchConfigs
    /\ cache = EmptyDb
    /\ pc = [p \in Procs |-> "idle"]
    /\ loc = [p \in Procs |-> IdleLoc]
    /\ result = [p \in Procs |-> NoResult]
    /\ pre = [p \in Procs |-> NoPre]
    /\ ops = 0
    /\ last_sync = NoLastSync
    /\ last_delete = NoLastDelete
    /\ WatcherInit

NextWatch ==
    \/ \E p \in Procs : AllIdle /\ start_vault_watch_call(p)
    \/ \E p \in Procs, cfg \in WatchConfigs : AllIdle /\ save_config_cmd(p, cfg)
    \/ \E p \in Procs :
          \/ start_vault_watch_watch(p)
          \/ start_vault_watch_install(p)
          \/ Return(p)
    \/ \E w \in notify.watchers, res_ok \in BOOLEAN : watcher_callback(w, res_ok)
    \/ \E d \in TickSteps : Tick(d)

SpecWatch == InitWatch /\ [][NextWatch]_vars

\* The names of a vault that also holds a file with another extension, a
\* file named just ".md" and a file in a subdirectory.
ScanNames ==
    { A, B, <<"n", ".", "t">>, <<".", "m", "d">>, <<"d", "/", "a", ".", "m", "d">> }

\* The scan of such a vault, under each configuration.
InitScan ==
    /\ vault \in [ScanNames -> {NoFile, BinaryFile} \cup InitialFiles]
    /\ config \in Configs
    /\ cache = EmptyDb
    /\ pc = [p \in Procs |-> "idle"]
    /\ loc = [p \in Procs |-> IdleLoc]
    /\ result = [p \in Procs |-> NoResult]
    /\ pre = [p \in Procs |-> NoPre]
    /\ ops = 0
    /\ last_sync = NoLastSync
    /\ last_delete = NoLastDelete
    /\ WatcherInit

NextScan ==
    \/ \E p \in Procs : AllIdle /\ scan_vault_cmd(p)
    \/ \E p \in Procs : Return(p)

SpecScan == InitScan /\ [][NextScan]_vars

\* The generator running while files of the candidate names come and go.
InitGen ==
    /\ vault \in [GenCandidates -> {NoFile} \cup InitialFiles]
    /\ config \in {c \in Configs : c.vault_path # "NULL"}
    /\ cache = EmptyDb
    /\ pc = [p \in Procs |-> "idle"]
    /\ loc = [p \in Procs |-> IdleLoc]
    /\ result = [p \in Procs |-> NoResult]
    /\ pre = [p \in Procs |-> NoPre]
    /\ ops = 0
    /\ last_sync = NoLastSync
    /\ last_delete = NoLastDelete
    /\ WatcherInit

GenStep ==
    \E p \in Procs :
        \/ \E c \in GenCandidates : generate_unique_file_path_attempt(p, c)
        \/ generate_unique_file_path_give_up(p)

NextGen ==
    \/ \E p \in Procs : generate_unique_file_path_call(p)
    \/ GenStep
    \/ \E p \in Procs : Return(p)
    \/ \E name \in GenCandidates, file \in InitialFiles : EnvWrite(name, file)
    \/ \E name \in GenCandidates : EnvDelete(name)

\* The generator's thread is scheduled: its loop keeps running.
SpecGen == InitGen /\ [][NextGen]_vars /\ WF_vars(GenStep)

\* The cache a sync_vault leaves for a vault that holds the one file `file`
\* at B: its row, upserted as sync_vault_upsert does, and its tags.
SyncedCache(file, frontmatter_settings) ==
    LET vlt == [n \in FileNames |-> IF n = B THEN file ELSE NoFile]
        f   == read_prompt_file(vlt, TRUE, B, frontmatter_settings).val
        up  == UPSERT_PROMPT(EmptyDb, f.file_path, f.created, f.content, f.title,
                             f.file_path, f.file_hash)
    IN  InsertTags(up.db, f.file_path, f.tags).db

\* Reading after the vault and the cache were in sync: the vault holds one
\* file, at B, and the cache is what the last sync_vault made of it.
InitRead ==
    /\ config \in {c \in Configs : c.root_exists}
    /\ \E file \in InitialFiles :
          /\ vault = [n \in FileNames |-> IF n = B THEN file ELSE NoFile]
          /\ cache = SyncedCache(file, config.frontmatter)
    /\ pc = [p \in Procs |-> "idle"]
    /\ loc = [p \in Procs |-> IdleLoc]
    /\ result = [p \in Procs |-> NoResult]
    /\ pre = [p \in Procs |-> NoPre]
    /\ ops = 0
    /\ last_sync = NoLastSync
    /\ last_delete = NoLastDelete
    /\ WatcherInit

NextRead ==
    \/ Env
    \/ \E p \in Procs : AllIdle /\ sync_vault_call(p)
    \/ \E p \in Procs, id \in DeleteIds : AllIdle /\ read_prompt_file_cmd(p, id)
    \/ \E p \in Procs :
          \/ sync_vault_begin(p)
          \/ sync_vault_upsert(p)
          \/ sync_vault_select(p)
          \/ sync_vault_prune(p)
          \/ sync_vault_commit(p)
          \/ Return(p)

SpecRead == InitRead /\ [][NextRead]_vars

\* The lines bodies are made of: the two opening fences, the two bare
\* fences, a text line, and an indented fence with an info string.
ParseLines == { <<BT, PR>>, <<TL, PR>>, <<BT>>, <<TL>>, <<"x">>, <<" ", BT, "r">> }

\* Every body of up to MaxLines such lines.
ParseBodies ==
    { Join(ls, <<NL>>) : ls \in UNION {[1..n -> ParseLines] : n \in 0..MaxLines} }

\* The parser applied to each such body, as the file A.
InitParse ==
    /\ \E body \in ParseBodies :
          vault = [n \in FileNames |-> IF n = A THEN TextFile(EmptyMapping, body) ELSE NoFile]
    /\ config \in CodecConfigs
    /\ cache = EmptyDb
    /\ pc = [p \in Procs |-> "idle"]
    /\ loc = [p \in Procs |-> IdleLoc]
    /\ result = [p \in Procs |-> NoResult]
    /\ pre = [p \in Procs |-> NoPre]
    /\ ops = 0
    /\ last_sync = NoLastSync
    /\ last_delete = NoLastDelete
    /\ WatcherInit

NextParse ==
    \/ \E p \in Procs : AllIdle /\ read_prompt_file_cmd(p, A)
    \/ \E p \in Procs : Return(p)

SpecParse == InitParse /\ [][NextParse]_vars


\* Two command invocations in flight at once.
RaceProcs == {1, 2}

\* What save_prompt is called with while another command runs: a new file at
\* a given or a generated name.
RaceInputs ==
    { i \in PromptInputs :
         /\ i.previous_file_path = NULL
         /\ i.file_path \in {<<"a">>, NULL}
         /\ i.title # NULL
         /\ ~Contains(i.text, <<BT>>) }

\* The vault holds one file, at B, and the cache is in sync with it.
InitRace ==
    /\ config = CHOOSE c \in Configs : c.root_exists /\ ~c.frontmatter.add_prompts_tag_to_tags
    /\ \E file \in InitialFiles :
          /\ vault = [n \in FileNames |-> IF n = B THEN file ELSE NoFile]
          /\ cache = SyncedCache(file, config.frontmatter)
    /\ pc = [p \in RaceProcs |-> "idle"]
    /\ loc = [p \in RaceProcs |-> IdleLoc]
    /\ result = [p \in RaceProcs |-> NoResult]
    /\ pre = [p \in RaceProcs |-> NoPre]
    /\ ops = 0
    /\ last_sync = NoLastSync
    /\ last_delete = NoLastDelete
    /\ WatcherInit

\* The commands are async handlers on a multi-threaded runtime: a call does
\* not wait for the other invocation, and their steps interleave.
NextRace ==
    \/ \E p \in RaceProcs : sync_vault_call(p)
    \/ \E p \in RaceProcs, prompt \in RaceInputs : save_prompt_call(p, prompt)
    \/ \E p \in RaceProcs, id \in {A, B} : duplicate_prompt_call(p, id)
    \/ \E p \in RaceProcs :
          \/ sync_vault_begin(p)
          \/ sync_vault_upsert(p)
          \/ sync_vault_select(p)
          \/ sync_vault_prune(p)
          \/ sync_vault_commit(p)
          \/ save_prompt_write(p)
          \/ save_prompt_begin(p)
          \/ save_prompt_delete_old(p)
          \/ save_prompt_upsert(p)
          \/ save_prompt_tags(p)
          \/ save_prompt_commit(p)
          \/ save_prompt_cleanup(p)
          \/ duplicate_prompt_tags(p)
          \/ duplicate_prompt_generate(p)
          \/ duplicate_prompt_write(p)
          \/ duplicate_prompt_tx(p)
          \/ Return(p)

SpecRace == InitRace /\ [][NextRace]_vars


\* Two sync_vault passes in flight while an external editor changes the vault.
NextOverlap ==
    \/ \E name \in {A, B} :
          \/ \E file \in ExternalFiles : EnvWrite(name, file)
          \/ EnvDelete(name)
    \/ \E p \in RaceProcs :
          \/ sync_vault_call(p)
          \/ sync_vault_begin(p)
          \/ sync_vault_upsert(p)
          \/ sync_vault_select(p)
          \/ sync_vault_prune(p)
          \/ sync_vault_commit(p)
          \/ Return(p)

SpecOverlap == InitRace /\ [][NextOverlap]_vars


\* Saves, deletions, duplications and syncs, one at a time, from a vault and
\* a cache in sync.
NextRefs ==
    \/ \E p \in Procs : AllIdle /\ sync_vault_call(p)
    \/ \E p \in Procs, prompt \in RaceInputs : AllIdle /\ save_prompt_call(p, prompt)
    \/ \E p \in Procs, id \in DeleteIds : AllIdle /\ delete_prompt_call(p, id)
    \/ \E p \in Procs, id \in {A, B} : AllIdle /\ duplicate_prompt_call(p, id)
    \/ \E p \in Procs :
          \/ sync_vault_begin(p)
          \/ sync_vault_upsert(p)
          \/ sync_vault_select(p)
          \/ sync_vault_prune(p)
          \/ sync_vault_commit(p)
          \/ save_prompt_write(p)
          \/ save_prompt_begin(p)
          \/ save_prompt_delete_old(p)
          \/ save_prompt_upsert(p)
          \/ save_prompt_tags(p)
          \/ save_prompt_commit(p)
          \/ save_prompt_cleanup(p)
          \/ delete_prompt_file_step(p)
          \/ delete_prompt_row(p)
          \/ duplicate_prompt_tags(p)
          \/ duplicate_prompt_generate(p)
          \/ duplicate_prompt_write(p)
          \/ duplicate_prompt_tx(p)
          \/ Return(p)

SpecRefs == InitRead /\ [][NextRefs]_vars


\* The threads that call start_vault_watch and the threads watchers run
\* their closures on.
StartThreads == {1, 2}
CallbackThreads == {3, 4}

InitLocks ==
    /\ vault = [n \in FileNames |-> NoFile]
    /\ config \in {c \in WatchConfigs : c.vault_path = "vault"}
    /\ cache = EmptyDb
    /\ pc = [p \in StartThreads \cup CallbackThreads |-> "idle"]
    /\ loc = [p \in StartThreads \cup CallbackThreads |-> IdleLoc]
    /\ result = [p \in StartThreads \cup CallbackThreads |-> NoResult]
    /\ pre = [p \in StartThreads \cup CallbackThreads |-> NoPre]
    /\ ops = 0
    /\ last_sync = NoLastSync
    /\ last_delete = NoLastDelete
    /\ WatcherInit

\* A step of a thread inside start_vault_watch or inside the closure.
LockStep ==
    \/ \E p \in StartThreads :
          \/ start_vault_watch_lock_watcher(p)
          \/ start_vault_watch_lock_path(p)
          \/ start_vault_watch_check(p)
          \/ start_vault_watch_watch(p)
          \/ start_vault_watch_install(p)
    \/ \E t \in CallbackThreads :
          \/ callback_lock(t)
          \/ callback_check(t)
          \/ callback_update(t)
          \/ callback_emit(t)

NextLocks ==
    \/ \E p \in StartThreads : start_vault_watch_enter(p)
    \/ \E p \in StartThreads, cfg \in {c \in WatchConfigs : c.vault_path = "other"} :
          save_config_cmd(p, cfg)
    \/ \E p \in StartThreads : Return(p)
    \/ \E t \in CallbackThreads, w \in notify.watchers :
          callback_begin(t, w, TRUE)
    \/ LockStep
    \/ \E d \in TickSteps : now + d <= MaxLockTime /\ Tick(d)

SpecLocks == InitLocks /\ [][NextLocks]_vars

SpecCodec == InitCodec /\ [][NextCodec]_vars

Spec == Init /\ [][Next]_vars

\* --------------------------------------------------------------------------
\* Reconciliation (sync_vault)
\* --------------------------------------------------------------------------

\* Invocation p has returned from cmd; SyncOk: successfully from sync_vault.
Returned(p, cmd) == pc[p] = "done" /\ loc[p].cmd = cmd
SyncOk(p) == Returned(p, "sync_vault") /\ result[p].ok

ScannedIds(p) == {f.id : f \in loc[p].scanned}
CachedIds(db) == DOMAIN db.prompts

\* C1: after a successful sync_vault the ids in the prompts table are exactly
\* the ids the scan returned: every scanned entry has a row and every row the
\* scan did not find is gone.
C1_SyncIdsAreScannedIds ==
    \A p \in Procs : SyncOk(p) => CachedIds(cache) = ScannedIds(p)

\* A successful pass that pruned the row of a file gone from the vault while
\* keeping the row of a file still there.
C1_Witness ==
    \E p \in Procs :
        /\ SyncOk(p)
        /\ ScannedIds(p) # {}
        /\ \E id \in CachedIds(pre[p].cache) :
              id \notin ScannedIds(p) /\ pre[p].vault[id] = NoFile

\* C2: after a successful sync_vault the row of every scanned entry stores the
\* created, text and title values parsed from the file in that scan, whether
\* the row was inserted or already existed with other values.
C2_RowsEqualScannedFields ==
    \A p \in Procs :
        SyncOk(p) =>
            \A f \in loc[p].scanned :
                /\ f.id \in CachedIds(cache)
                /\ cache.prompts[f.id].created_at = f.created
                /\ cache.prompts[f.id].text = f.content
                /\ cache.prompts[f.id].title = f.title

\* C2, the created value alone, for a row that existed before the pass.
C2_CreatedFollowsFile ==
    \A p \in Procs :
        SyncOk(p) =>
            \A f \in loc[p].scanned :
                f.id \in CachedIds(pre[p].cache) =>
                    cache.prompts[f.id].created_at = f.created

\* C3: a sync_vault that fails at an upsert, a tag replacement, a prune delete
\* or the commit returns an error and leaves prompts, tags and prompt_tags as
\* they were before the call.
C3_FailedSyncLeavesCache ==
    \A p \in Procs :
        (Returned(p, "sync_vault") /\ ~result[p].ok) => cache = pre[p].cache

\* A pass that failed after its transaction had upserted and pruned.
C3_Witness ==
    \E p \in Procs :
        /\ Returned(p, "sync_vault")
        /\ ~result[p].ok
        /\ loc[p].deleted_count > 0
        /\ loc[p].found_ids # {}
        /\ loc[p].tx # pre[p].cache

\* C4: from its call to its return, successful or not, sync_vault leaves every
\* file of the vault as it was; only cache rows change.
C4_SyncLeavesVault ==
    \A p \in Procs : loc[p].cmd = "sync_vault" => vault = pre[p].vault

\* A pass that changed the cache over a vault holding files.
C4_Witness ==
    \E p \in Procs :
        /\ SyncOk(p)
        /\ cache # pre[p].cache
        /\ \E n \in FileNames : vault[n] # NoFile
        /\ loc[p].deleted_count > 0

\* C5: the summary of a successful sync_vault has found = the number of
\* scanned entries, updated = found, and deleted = the number of rows present
\* before the pass whose id was not scanned.
C5_SyncStats ==
    \A p \in Procs :
        SyncOk(p) =>
            /\ result[p].stats.found = Cardinality(loc[p].scanned)
            /\ result[p].stats.updated = result[p].stats.found
            /\ result[p].stats.deleted =
                   Cardinality(CachedIds(pre[p].cache) \ ScannedIds(p))

\* A summary that reports both an entry found and a row deleted.
C5_Witness ==
    \E p \in Procs :
        /\ SyncOk(p)
        /\ result[p].stats.found >= 1
        /\ result[p].stats.deleted >= 1

\* C6: a successful sync_vault that directly follows a successful sync_vault,
\* with no change of the vault in between, returns the same found, returns
\* deleted = 0 and leaves the cache as the first left it.
C6_SyncIdempotent ==
    \A p \in Procs :
        (SyncOk(p) /\ last_sync.valid) =>
            /\ result[p].stats.found = last_sync.found
            /\ result[p].stats.deleted = 0
            /\ cache = last_sync.cache

\* A second pass over a vault with an entry that carries tags.
C6_Witness ==
    \E p \in Procs :
        /\ SyncOk(p)
        /\ last_sync.valid
        /\ result[p].stats.found > 0
        /\ cache.prompt_tags # {}

\* --------------------------------------------------------------------------
\* Single-entity write (save_prompt)
\* --------------------------------------------------------------------------

\* What the caller passed, read off the input alone.
PathGiven(path) == path # NULL /\ Trim(path) # <<>>
InputTarget(p) == normalize_relative_path(loc[p].prompt.file_path)
InputPrevious(p) == normalize_relative_path(loc[p].prompt.previous_file_path)

\* The save got as far as the collision check: the configuration loaded with
\* a vault path, and the target id and the previous id (when given) normalize.
SaveInputsValid(p) ==
    /\ result[p].err.msg \notin {"Failed to load config", "Failed to generate filename"}
    /\ config.vault_path # "NULL"
    /\ PathGiven(loc[p].prompt.file_path) => InputTarget(p).ok
    /\ PathGiven(loc[p].prompt.previous_file_path) => InputPrevious(p).ok

\* The target file existed at the call and the save is not a save in place.
SaveCollides(p) ==
    LET target == IF PathGiven(loc[p].prompt.file_path)
                  THEN InputTarget(p).val ELSE loc[p].file_path
    IN  /\ Exists(pre[p].vault, config.root_exists, target)
        /\ \/ ~PathGiven(loc[p].prompt.previous_file_path)
           \/ InputPrevious(p).val # target

\* The file write_prompt_file leaves at the target, given the vault at the call.
WrittenFile(p) ==
    write_prompt_file(pre[p].vault, config.root_exists,
                      PromptFile(loc[p].file_path, loc[p].prompt.tags,
                                 loc[p].prompt.created, loc[p].prompt.text, NULL,
                                 loc[p].prompt.title, NULL),
                      config.frontmatter, Now, TRUE).vlt[loc[p].file_path]

SaveInTx(p) ==
    pc[p] \in {"save_delete_old", "save_upsert", "save_tags", "save_commit", "save_cleanup"}

\* C8: in save the vault file is written before the cache transaction begins:
\* the cache changes only after the write has succeeded, and a failed write
\* returns an error with the cache untouched.
C8_VaultFirst ==
    \A p \in Procs :
        loc[p].cmd = "save_prompt" =>
            /\ (SaveInTx(p) \/ cache # pre[p].cache)
                   => (loc[p].wrote /\ vault[loc[p].file_path] = WrittenFile(p))
            /\ (pc[p] = "done" /\ ~loc[p].wrote)
                   => (~result[p].ok /\ cache = pre[p].cache /\ vault = pre[p].vault)

\* A transaction about to commit changes for a file that was just created.
C8_Witness ==
    \E p \in Procs :
        /\ loc[p].cmd = "save_prompt"
        /\ pc[p] = "save_commit"
        /\ loc[p].tx # cache
        /\ pre[p].vault[loc[p].file_path] = NoFile

\* C9: in a renaming save the old file leaves the vault only after the new
\* file is written and the cache transaction has committed; when the write or
\* the transaction fails the old file is still there and the cache unchanged.
C9_OldFileOutlivesCommit ==
    \A p \in Procs :
        (loc[p].cmd = "save_prompt" /\ IsRename(loc[p])) =>
            LET old == loc[p].previous_file_path
            IN  /\ vault[old] # pre[p].vault[old]
                       => /\ loc[p].committed
                          /\ cache = loc[p].tx
                          /\ vault[loc[p].file_path] = WrittenFile(p)
                /\ (pc[p] = "done" /\ ~result[p].ok)
                       => (vault[old] = pre[p].vault[old] /\ cache = pre[p].cache)

\* A rename that completed and removed the old file.
C9_Witness ==
    \E p \in Procs :
        /\ Returned(p, "save_prompt")
        /\ result[p].ok
        /\ IsRename(loc[p])
        /\ pre[p].vault[loc[p].previous_file_path] # NoFile
        /\ vault[loc[p].previous_file_path] = NoFile

\* C10: a successful renaming save leaves no row for the old id and a row for
\* the new id, and the committed cache shows the old row's deletion, the new
\* row and its tags together or not at all.
C10_RenameIsAtomic ==
    \A p \in Procs :
        (loc[p].cmd = "save_prompt" /\ IsRename(loc[p])) =>
            LET renamed ==
                    /\ loc[p].previous_file_path \notin CachedIds(cache)
                    /\ loc[p].file_path \in CachedIds(cache)
                    /\ TagsForPrompt(cache, loc[p].file_path)
                           = {loc[p].prompt.tags[i] : i \in 1..Len(loc[p].prompt.tags)}
            IN  /\ (pc[p] = "done" /\ result[p].ok) => renamed
                /\ cache = pre[p].cache \/ (loc[p].committed /\ renamed)

\* A rename of an entry that had a row, completed.
C10_Witness ==
    \E p \in Procs :
        /\ Returned(p, "save_prompt")
        /\ result[p].ok
        /\ IsRename(loc[p])
        /\ loc[p].previous_file_path \in CachedIds(pre[p].cache)
        /\ loc[p].file_path \notin CachedIds(pre[p].cache)


\* C11: in a renaming save a failure to delete the old file after the commit
\* does not fail the operation: save returns success, the cache holds the new
\* row, and the old file stays in the vault as it was.
C11_CleanupFailureIsNotFatal ==
    \A p \in Procs :
        (Returned(p, "save_prompt") /\ IsRename(loc[p]) /\ loc[p].committed) =>
            LET old == loc[p].previous_file_path
            IN  /\ result[p] = Ok(NoStats)
                /\ loc[p].file_path \in CachedIds(cache)
                /\ cache = loc[p].tx
                /\ vault[old] = NoFile \/ vault[old] = pre[p].vault[old]

\* A committed rename whose old file is still in the vault.
C11_Witness ==
    \E p \in Procs :
        /\ Returned(p, "save_prompt")
        /\ IsRename(loc[p])
        /\ loc[p].committed
        /\ result[p].ok
        /\ vault[loc[p].previous_file_path] # NoFile
        /\ vault[loc[p].file_path] # NoFile


\* --------------------------------------------------------------------------
\* Single-entity delete (delete_prompt)
\* --------------------------------------------------------------------------

\* The file delete_prompt aims at, read off the id alone.
DeleteTarget(p) == normalize_relative_path(loc[p].id)

\* C12: delete tolerates a missing file: with the target file absent the
\* vault delete never fails the operation and a successful delete leaves no
\* row for id and the vault as it was; a delete that directly follows a
\* successful delete of the same id fails only in the configuration or the
\* cache, and when it succeeds vault and cache are as the first call left them.
C12_DeleteIdempotent ==
    \A p \in Procs :
        Returned(p, "delete_prompt") =>
            /\ (DeleteTarget(p).ok
                  /\ ~Exists(pre[p].vault, config.root_exists, DeleteTarget(p).val))
                   => /\ result[p].err.msg # "Failed to delete from vault"
                      /\ result[p].ok =>
                            (loc[p].id \notin CachedIds(cache) /\ vault = pre[p].vault)
            /\ (last_delete.valid /\ last_delete.id = loc[p].id)
                   => /\ result[p].err.msg \in {"none", "Failed to load config", "sqlx"}
                      /\ vault = last_delete.vault
                      /\ cache = last_delete.cache

\* A second successful delete of an id whose file and row the first removed.
C12_Witness ==
    \E p \in Procs :
        /\ Returned(p, "delete_prompt")
        /\ result[p].ok
        /\ last_delete.valid
        /\ last_delete.id = loc[p].id
        /\ config.root_exists
        /\ DeleteTarget(p).ok

\* C13: when the vault delete fails for another reason than the file being
\* absent (the id does not normalize, or the file is still there afterwards),
\* delete returns an error and the cache is as it was: the row is kept.
C13_FailedFileDeleteKeepsRow ==
    \A p \in Procs :
        Returned(p, "delete_prompt") =>
            /\ (\/ ~DeleteTarget(p).ok
                \/ /\ Exists(pre[p].vault, config.root_exists, DeleteTarget(p).val)
                   /\ vault[DeleteTarget(p).val] # NoFile)
                   => (~result[p].ok /\ cache = pre[p].cache /\ vault = pre[p].vault)
            /\ result[p].err.msg = "Failed to delete from vault" => cache = pre[p].cache

\* remove_file failed for a file that has a row.
C13_Witness ==
    \E p \in Procs :
        /\ Returned(p, "delete_prompt")
        /\ result[p].err.msg = "Failed to delete from vault"
        /\ DeleteTarget(p).ok
        /\ vault[DeleteTarget(p).val] # NoFile
        /\ loc[p].id \in CachedIds(cache)


\* --------------------------------------------------------------------------
\* Caller-supplied ids
\* --------------------------------------------------------------------------

\* An id the contract refuses: empty or blank, holding "..", or holding a
\* separator (at the start or inside).
RefusedId(id) ==
    \/ Trim(id) = <<>>
    \/ Contains(id, <<".", ".">>)
    \/ Contains(id, <<"/">>)
    \/ Contains(id, <<"\\">>)

\* The configuration loaded and names a vault.
ConfigLoaded(p) ==
    /\ config.vault_path # "NULL"
    /\ result[p].err.msg \notin {"config", "Failed to load config"}

\* The id-taking command p ran was given a refused id.
CalledWithRefusedId(p) ==
    \/ /\ loc[p].cmd \in {"read_prompt_file", "delete_prompt_file", "delete_prompt"}
       /\ RefusedId(loc[p].id)
    \/ loc[p].cmd = "write_prompt_file" /\ RefusedId(loc[p].file.file_path)
    \/ /\ loc[p].cmd = "save_prompt"
       /\ \/ loc[p].prompt.file_path # NULL /\ RefusedId(loc[p].prompt.file_path)
          \/ /\ loc[p].prompt.previous_file_path # NULL
             /\ RefusedId(loc[p].prompt.previous_file_path)

HasFence(content) == Contains(content, <<BT>>) \/ Contains(content, <<TL>>)

WriteOk(p) == Returned(p, "write_prompt_file") /\ result[p].ok

\* What reading the written entry's id returns in the current vault.
ReadBack(p) ==
    find_prompt_by_id(vault, config.root_exists, loc[p].file.id, config.frontmatter)

\* The elements of a sequence.
Range(seq) == {seq[i] : i \in 1..Len(seq)}

\* The body holds a complete prompt block: an opening fence line and, after
\* it, a line that starts with the same fence.
HasBlock(body) ==
    /\ BlockStart(Lines(body)) # 0
    /\ BlockEnd(Lines(body), BlockStart(Lines(body)),
                FenceOf(Lines(body)[BlockStart(Lines(body))])) # 0

\* The write went to a file that did not exist or that held a complete block.
WroteNewOrBlock(p) ==
    /\ WriteOk(p)
    /\ \/ pre[p].vault[A] = NoFile
       \/ pre[p].vault[A].kind = "text" /\ HasBlock(pre[p].vault[A].body)

\* C16: after write accepted an entry P, reading P.id returns P's content and
\* P's normalized tag set, both when the file did not exist and when it
\* already held a prompt block.
C16_RoundTrip ==
    \A p \in Procs :
        WroteNewOrBlock(p) =>
            /\ ReadBack(p).ok
            /\ ReadBack(p).val.content = loc[p].file.content
            /\ Range(ReadBack(p).val.tags) = Range(FilterMapTags(loc[p].file.tags))

\* C16, the content alone, for a file that did not exist before the write.
C16_RoundTripNewFile ==
    \A p \in Procs :
        (WriteOk(p) /\ pre[p].vault[A] = NoFile) =>
            ReadBack(p).val.content = loc[p].file.content

\* C16, the content alone, for content that does not end in a newline,
\* written over one of the files of CodecFiles.
C16_RoundTripNoFinalNewline ==
    \A p \in Procs :
        (WroteNewOrBlock(p) /\ pre[p].vault[A] \in CodecFiles
           /\ ~EndsWith(loc[p].file.content, <<NL>>)) =>
            ReadBack(p).val.content = loc[p].file.content

\* C16, the tag set alone, when the marker tag is not mirrored into the tag key.
C16_RoundTripTags ==
    \A p \in Procs :
        (WroteNewOrBlock(p) /\ ~(config.frontmatter.add_prompts_tag_to_tags
                           /\ config.frontmatter.prompt_tags_property = "tags")) =>
            Range(ReadBack(p).val.tags) = Range(FilterMapTags(loc[p].file.tags))


\* The keys the codec owns: the configured tag key, created, title,
\* description and id.
CodecKeys ==
    {normalize_frontmatter_key(config.frontmatter.prompt_tags_property),
     "created", "title", "description", "id"}

\* Outside of `owned`, the mappings before and after a write to an existing
\* file have the same keys with the same values.
OtherKeysKept(p, owned) ==
    LET old == pre[p].vault[A].fm
        new == vault[A].fm
    IN  /\ (DOMAIN old) \ owned = (DOMAIN new) \ owned
        /\ \A k \in (DOMAIN old) \ owned : new[k] = old[k]

\* C17 as stated: a write to an existing file leaves every frontmatter key
\* other than the configured tag key, created, title, description and id
\* present with an unchanged value, and adds no other key.
C17_UnknownKeysKept ==
    \A p \in Procs :
        (WriteOk(p) /\ pre[p].vault[A].kind = "text") => OtherKeysKept(p, CodecKeys)

\* C17 amended: the same, where with add_prompts_tag_to_tags set the key
\* `tags` also belongs to the codec (the marker tag "prompts" is mirrored
\* into it).
C17_UnknownKeysKeptBesideMarker ==
    \A p \in Procs :
        (WriteOk(p) /\ pre[p].vault[A].kind = "text") =>
            OtherKeysKept(p, CodecKeys \cup (IF config.frontmatter.add_prompts_tag_to_tags
                                             THEN {"tags"} ELSE {}))

\* A write over a file with keys the codec does not own, where the marker
\* went into a `tags` key that is not the configured tag key.
C17_Witness ==
    \E p \in Procs :
        /\ WriteOk(p)
        /\ pre[p].vault[A].kind = "text"
        /\ "rank" \in DOMAIN pre[p].vault[A].fm
        /\ "rank" \in DOMAIN vault[A].fm
        /\ "tags" \notin CodecKeys
        /\ vault[A].fm["tags"] # pre[p].vault[A].fm["tags"]


\* The lines of a body holding a complete block, with the lines strictly
\* between the fence lines replaced by the lines of content.
InteriorReplaced(body, content) ==
    LET ol    == Lines(body)
        start == BlockStart(ol)
        end   == BlockEnd(ol, start, FenceOf(ol[start]))
    IN  SubSeq(ol, 1, start) \o Lines(content) \o SubSeq(ol, end, Len(ol))

\* The write went to an existing file whose body held a complete block.
WroteOverBlock(p) ==
    /\ WriteOk(p)
    /\ pre[p].vault[A].kind = "text"
    /\ HasBlock(pre[p].vault[A].body)

\* The write went to an existing file whose body held no complete block.
WroteOverNoBlock(p) ==
    /\ WriteOk(p)
    /\ pre[p].vault[A].kind = "text"
    /\ ~HasBlock(pre[p].vault[A].body)

\* C18: a write over a body with a prompt block replaces only the lines
\* strictly between the fence lines by the new content's lines and keeps all
\* other text, the fence lines and the body's trailing newline included; a
\* write over a body with no complete block appends a new block at its end.
C18_BlockFrame ==
    \A p \in Procs :
        /\ WroteOverBlock(p) =>
               /\ Lines(vault[A].body)
                      = InteriorReplaced(pre[p].vault[A].body, loc[p].file.content)
               /\ EndsWith(vault[A].body, <<NL>>) <=> EndsWith(pre[p].vault[A].body, <<NL>>)
        /\ WroteOverNoBlock(p) =>
               /\ StartsWith(vault[A].body, TrimEnd(pre[p].vault[A].body))
               /\ EndsWith(vault[A].body,
                           <<BT, PR, NL>> \o loc[p].file.content \o <<NL, BT, NL>>)

\* C18, line part: a write over a body with a prompt block replaces the
\* lines strictly between the fence lines and keeps every other line.
C18_BlockFrameLines ==
    \A p \in Procs :
        WroteOverBlock(p) =>
            Lines(vault[A].body)
                = InteriorReplaced(pre[p].vault[A].body, loc[p].file.content)

\* C18, append part: a write over a body with no complete block keeps the
\* body up to its trailing whitespace and ends with a new block.
C18_AppendsWhenNoBlock ==
    \A p \in Procs :
        WroteOverNoBlock(p) =>
            /\ StartsWith(vault[A].body, TrimEnd(pre[p].vault[A].body))
            /\ EndsWith(vault[A].body,
                        <<BT, PR, NL>> \o loc[p].file.content \o <<NL, BT, NL>>)

\* C18, newline part: a write over a body with a prompt block never leaves
\* a trailing newline.
C18_BlockWriteDropsFinalNewline ==
    \A p \in Procs :
        WroteOverBlock(p) => ~EndsWith(vault[A].body, <<NL>>)


\* --------------------------------------------------------------------------
\* The watcher's debounce and state
\* --------------------------------------------------------------------------

\* The callbacks that delivered a filesystem event (not a watcher error).
FsEvents == {i \in 1..Len(events) : events[i].ok}

\* Callback i emitted a notification.
Emitted(i) == \E k \in 1..Len(emitted) : emitted[k].event = i

\* At callback i at least Debounce had passed since the last notification
\* emitted before it, if there was one.
Quiet(i) ==
    \A j \in 1..(i - 1) : Emitted(j) => events[i].at - events[j].at >= Debounce

\* An event is notified iff the debounce window has passed.
NotifiedIffQuiet == \A i \in FsEvents : Emitted(i) <=> Quiet(i)

\* Any two notifications are at least Debounce apart.
NotificationsApart ==
    \A k, l \in 1..Len(emitted) : k < l => emitted[l].at - emitted[k].at >= Debounce

\* Every notification is emitted by the callback of one event, at that
\* event's time, and no event is notified twice.
NoLateNotification ==
    /\ \A k \in 1..Len(emitted) :
          /\ emitted[k].event \in FsEvents
          /\ emitted[k].at = events[emitted[k].event].at
    /\ \A k, l \in 1..Len(emitted) : k # l => emitted[k].event # emitted[l].event

OneRecordedWatch ==
    IF watcher_state.watcher = NoWatcher
    THEN notify.watchers = {} /\ watcher_state.path = "NULL"
    ELSE notify.watchers = {[id |-> watcher_state.watcher, path |-> watcher_state.path]}

\* start_vault_watch returned success having been called while the path it
\* loaded was already watched / was not.
StartedSamePath(p) ==
    /\ Returned(p, "start_vault_watch") /\ result[p].ok
    /\ pre[p].watcher_state.path = loc[p].vault_path
    /\ pre[p].watcher_state.watcher # NoWatcher

StartedOtherPath(p) ==
    /\ Returned(p, "start_vault_watch") /\ result[p].ok
    /\ ~(/\ pre[p].watcher_state.path = loc[p].vault_path
         /\ pre[p].watcher_state.watcher # NoWatcher)

\* C20: outside of a start in progress at most one watch is alive and it
\* observes the recorded path; a start with the path already watched keeps
\* the watcher and the path; a start with another path records that path
\* with a new watcher and ends every watch held before.
C20_OneWatch ==
    /\ (\A p \in Procs : pc[p] # "install") =>
           (Cardinality(notify.watchers) <= 1 /\ OneRecordedWatch)
    /\ \A p \in Procs :
          /\ StartedSamePath(p) =>
                 /\ watcher_state.watcher = pre[p].watcher_state.watcher
                 /\ watcher_state.path = pre[p].watcher_state.path
                 /\ notify.watchers = pre[p].watchers
          /\ StartedOtherPath(p) =>
                 /\ watcher_state.path = loc[p].vault_path
                 /\ watcher_state.watcher # pre[p].watcher_state.watcher
                 /\ notify.watchers \cap pre[p].watchers = {}
                 /\ \A w \in notify.watchers : w.path = loc[p].vault_path

\* A start replaced the watch of another path.
C20_Witness ==
    \E p \in Procs :
        /\ StartedOtherPath(p)
        /\ pre[p].watchers # {}
        /\ \A w \in pre[p].watchers : w.path # loc[p].vault_path
        /\ Cardinality(notify.watchers) = 1


\* --------------------------------------------------------------------------
\* What a watcher callback touches
\* --------------------------------------------------------------------------

\* A step in which a watcher callback ran.
CallbackStep == Len(events') = Len(events) + 1

\* C21: a watcher callback changes only last_emit and emits at most one
\* notification: no command is started or advanced by it, and the vault, the
\* cache, the configuration, the recorded watcher and the recorded path stay
\* as they are.
C21_CallbackOnlyNotifies ==
    [][CallbackStep =>
          /\ pc' = pc /\ loc' = loc /\ result' = result
          /\ vault' = vault /\ cache' = cache /\ config' = config
          /\ watcher_state'.watcher = watcher_state.watcher
          /\ watcher_state'.path = watcher_state.path
          /\ notify' = notify
          /\ Len(emitted') <= Len(emitted) + 1
          /\ SubSeq(emitted', 1, Len(emitted)) = emitted]_vars

\* Callbacks ran: one emitted and advanced last_emit, a later one was dropped.
C21_Witness ==
    /\ Len(events) >= 2
    /\ Len(emitted) = 1
    /\ watcher_state.last_emit = emitted[1].at
    /\ events[Len(events)].ok
    /\ ~Emitted(Len(events))


\* --------------------------------------------------------------------------
\* No vault path configured
\* --------------------------------------------------------------------------

\* Command p read a configuration that names a vault path.
ReadConfigWithPath(p) ==
    /\ pc[p] # "idle"
    /\ config.vault_path # "NULL"
    /\ result[p].err.msg \notin {"config", "Failed to load config"}

\* Command p read a configuration that names no vault path.
ReadConfigWithoutPath(p) ==
    /\ pc[p] # "idle"
    /\ config.vault_path = "NULL"
    /\ result[p].err.msg \notin {"config", "Failed to load config"}

\* The command p ran has left the vault, the cache and the watcher alone.
TouchedNothing(p) ==
    /\ vault = pre[p].vault
    /\ cache = pre[p].cache
    /\ watcher_state = pre[p].watcher_state
    /\ notify.watchers = pre[p].watchers

ReadableMdFiles ==
    {n \in DOMAIN vault : /\ \A i \in 1..Len(n) : n[i] \notin {"/", "\\"}
                          /\ Len(n) > 3
                          /\ SubSeq(n, Len(n) - 2, Len(n)) = <<".", "m", "d">>
                          /\ vault[n].kind = "text"}

\* C23: a scan that returns holds exactly one entry for each readable
\* top-level .md file and nothing else; an unreadable file does not make it
\* fail: with an existing root it fails only when the directory itself
\* cannot be listed.
C23_ScanListsReadableMdFiles ==
    \A p \in Procs :
        (Returned(p, "scan_vault") /\ ReadConfigWithPath(p)) =>
            IF result[p].ok
            THEN /\ {f.id : f \in loc[p].scanned} = ReadableMdFiles
                 /\ Cardinality(loc[p].scanned) = Cardinality(ReadableMdFiles)
            ELSE \/ ~config.root_exists
                 \/ result[p].err = VaultError("IoError", "read_dir")

\* A scan succeeded over a vault with a readable .md file, an unreadable .md
\* file, a file with another extension and a file in a subdirectory.
C23_Witness ==
    \E p \in Procs :
        /\ Returned(p, "scan_vault") /\ result[p].ok
        /\ vault[A].kind = "text"
        /\ vault[B].kind = "binary"
        /\ vault[<<"n", ".", "t">>].kind = "text"
        /\ vault[<<"d", "/", "a", ".", "m", "d">>].kind = "text"
        /\ {f.id : f \in loc[p].scanned} = {A}


\* --------------------------------------------------------------------------
\* Tag associations
\* --------------------------------------------------------------------------

\* The prompt_tags rows of an entry.
Associations(db, id) == {pt \in db.prompt_tags : pt.prompt_id = id}

GenerationBounded ==
    \A p \in Procs :
        loc[p].cmd = "generate_unique_file_path" =>
            /\ loc[p].attempts <= MaxAttempts
            /\ pc[p] = "generate" => loc[p].collisions = loc[p].attempts
            /\ (pc[p] = "done" /\ result[p].ok) =>
                   /\ loc[p].collisions = loc[p].attempts - 1
                   /\ loc[p].file_path \in GenCandidates
            /\ (pc[p] = "done" /\ ~result[p].ok) =>
                   /\ loc[p].attempts = MaxAttempts
                   /\ loc[p].collisions = MaxAttempts
                   /\ result[p].err.kind = "FileAlreadyExists"

\* In the step in which the generator returns a name, no file of that name
\* exists in the vault.
ReturnsFreeName ==
    \A p \in Procs :
        (pc[p] = "generate" /\ pc'[p] = "done" /\ result'[p].ok) =>
            ~Exists(vault, config.root_exists, loc'[p].file_path)

\* C25: name generation makes at most 20 attempts, returns the first
\* candidate that did not exist when checked, fails with FileAlreadyExists
\* when all 20 existed, and always terminates.
C25_GenerationTerminates ==
    /\ []GenerationBounded
    /\ [][ReturnsFreeName]_vars
    /\ \A p \in Procs : (pc[p] = "generate") ~> (pc[p] = "done")

\* The generator gave up after 20 collisions.
C25_Witness ==
    \E p \in Procs :
        /\ Returned(p, "generate_unique_file_path")
        /\ ~result[p].ok
        /\ loc[p].collisions = MaxAttempts


\* --------------------------------------------------------------------------
\* Reading an id that has no file
\* --------------------------------------------------------------------------

\* No file of the vault goes by the normalized id.
NoFileFor(id) ==
    /\ normalize_relative_path(id).ok
    /\ \/ normalize_relative_path(id).val \notin DOMAIN vault
       \/ vault[normalize_relative_path(id).val].kind = "absent"

\* C26: with an existing vault root, reading an id whose normalized name has
\* no file fails with NotFound; and every id a successful sync_vault pruned
\* has no file, so that reading it fails with NotFound, the pruned rows
\* being counted in deleted.
C26_ReadOfMissingIsNotFound ==
    \A p \in Procs :
        /\ (Returned(p, "read_prompt_file") /\ ReadConfigWithPath(p)
              /\ config.root_exists /\ NoFileFor(loc[p].id)) =>
               (~result[p].ok /\ result[p].err.kind = "NotFound")
        /\ SyncOk(p) =>
               LET pruned == (DOMAIN pre[p].cache.prompts) \ (DOMAIN cache.prompts)
               IN  /\ result[p].stats.deleted = Cardinality(pruned)
                   /\ \A id \in pruned :
                          find_prompt_by_id(vault, config.root_exists, id,
                                            config.frontmatter).err.kind = "NotFound"

\* B was deleted on disk, a sync has pruned its row, and the read of B that
\* followed failed with NotFound.
C26_Witness ==
    \E p \in Procs :
        /\ Returned(p, "read_prompt_file")
        /\ loc[p].id = B
        /\ result[p].err.kind = "NotFound"
        /\ vault[B] = NoFile
        /\ B \notin DOMAIN cache.prompts


\* --------------------------------------------------------------------------
\* The created value of a write
\* --------------------------------------------------------------------------

\* The frontmatter of the file the write found at A, empty if there was none.
FoundMapping(p) ==
    IF pre[p].vault[A].kind = "text" THEN pre[p].vault[A].fm ELSE EmptyMapping

\* C27: the created a write leaves in the file is the caller's when given,
\* else the created the existing file had, else the current timestamp; a
\* write without created keeps the created of an existing file that has one.
C27_CreatedPrecedence ==
    \A p \in Procs :
        WriteOk(p) =>
            vault[A].fm["created"] =
                IF loc[p].file.created # NULL THEN YamlString(loc[p].file.created)
                ELSE IF "created" \in DOMAIN FoundMapping(p) THEN FoundMapping(p)["created"]
                ELSE YamlString(Now)

\* C27 where the existing created, if any, is a string: the same precedence.
C27_CreatedPrecedenceOfStrings ==
    \A p \in Procs :
        (WriteOk(p) /\ ("created" \in DOMAIN FoundMapping(p)
                           => FoundMapping(p)["created"].kind = "String")) =>
            vault[A].fm["created"] =
                IF loc[p].file.created # NULL THEN YamlString(loc[p].file.created)
                ELSE IF "created" \in DOMAIN FoundMapping(p) THEN FoundMapping(p)["created"]
                ELSE YamlString(Now)

\* C27, the other case: a write without created over a file whose created is
\* not a string replaces it by the current timestamp.
C27_OtherCreatedIsReplaced ==
    \A p \in Procs :
        (WriteOk(p) /\ loc[p].file.created = NULL
            /\ "created" \in DOMAIN FoundMapping(p)
            /\ FoundMapping(p)["created"].kind # "String") =>
            vault[A].fm["created"] = YamlString(Now)


\* --------------------------------------------------------------------------
\* The content of a parsed body
\* --------------------------------------------------------------------------

\* The lines strictly between the first opening fence line and the first
\* later line that starts with its fence (all remaining lines when there is
\* none), joined by newlines; empty without an opening fence line.
BlockInterior(body) ==
    LET lines == Lines(body)
        start == BlockStart(lines)
        end   == IF start = 0 THEN 0 ELSE BlockEnd(lines, start, FenceOf(lines[start]))
    IN  IF start = 0 THEN <<>>
        ELSE Join(SubSeq(lines, start + 1, IF end = 0 THEN Len(lines) ELSE end - 1), <<NL>>)

\* A second opening fence line stands inside the block, or closes it.
OpensAgain(body) ==
    LET lines == Lines(body)
        start == BlockStart(lines)
        end   == IF start = 0 THEN 0 ELSE BlockEnd(lines, start, FenceOf(lines[start]))
    IN  /\ start # 0
        /\ \E i \in (start + 1)..(IF end = 0 THEN Len(lines) ELSE end) :
              IsOpeningFence(lines[i])

\* C28: the content read from a body is the lines strictly between the first
\* opening fence line and the first later line starting with the same fence,
\* joined by newlines; empty when no fence opens; all remaining lines when
\* none closes.
C28_ContentIsBlockInterior ==
    \A p \in Procs :
        (Returned(p, "read_prompt_file") /\ result[p].ok) =>
            loc[p].read.content = BlockInterior(vault[A].body)

\* C28 for bodies in which no second opening fence line comes before the
\* block is closed.
C28_ContentOfOneOpening ==
    \A p \in Procs :
        (Returned(p, "read_prompt_file") /\ result[p].ok /\ ~OpensAgain(vault[A].body)) =>
            loc[p].read.content = BlockInterior(vault[A].body)


\* --------------------------------------------------------------------------
\* C29
\* --------------------------------------------------------------------------

UniqueTagNames(db) == \A s, t \in db.tags : s.name = t.name => s = t

\* The tags rows a step commits: the rows there stay as they are, and a new
\* row has a name and an id no row had.
TagsOnlyAdded ==
    /\ cache.tags \subseteq cache'.tags
    /\ \A t \in cache'.tags \ cache.tags :
          \A s \in cache.tags : s.name # t.name /\ s.id # t.id

\* C29: through saves, duplications and syncs whose steps interleave, no two
\* rows of the tags table have the same name, neither committed nor inside
\* an open transaction; a commit keeps the row of every name that had one
\* and adds rows with fresh ids only for names that had none.
C29_TagNamesUnique ==
    /\ [](UniqueTagNames(cache) /\ \A p \in DOMAIN pc : UniqueTagNames(loc[p].tx))
    /\ [][TagsOnlyAdded]_vars

\* Two saves, both with the tag "f" and both called before either committed,
\* have succeeded: both files are associated with the one row of that name.
C29_Witness ==
    \E p, q \in DOMAIN pc :
        /\ p # q
        /\ pre[p].cache = pre[q].cache
        /\ \A r \in {p, q} : /\ pc[r] = "done"
                             /\ loc[r].cmd = "save_prompt"
                             /\ result[r].ok
                             /\ loc[r].prompt.tags = << <<"f">> >>
        /\ loc[p].file_path # loc[q].file_path
        /\ \E t \in cache.tags :
              /\ t.name = <<"f">>
              /\ \A r \in {p, q} :
                    [prompt_id |-> loc[r].file_path, tag_id |-> t.id] \in cache.prompt_tags


\* --------------------------------------------------------------------------
\* C30
\* --------------------------------------------------------------------------

\* A save and a sync, in flight together, have both succeeded.
SaveAndSyncDone(s, y) ==
    /\ pc[s] = "done" /\ loc[s].cmd = "save_prompt" /\ result[s].ok
    /\ pc[y] = "done" /\ loc[y].cmd = "sync_vault" /\ result[y].ok

\* The sync pass scanned the directory before the save wrote its file.
ScanMissedSave(s, y) == \A f \in loc[y].scanned : f.file_path # loc[s].file_path

\* C30: after a save and a concurrent sync have both completed, the cache
\* holds a row for the saved file, which is in the vault.
C30_SavedRowSurvivesSync ==
    \A s, y \in DOMAIN pc :
        (SaveAndSyncDone(s, y) /\ Exists(vault, config.root_exists, loc[s].file_path)) =>
            loc[s].file_path \in DOMAIN cache.prompts

\* C30, second half: the commit of a sync pass removes no row whose file is
\* in the vault at that time.
C30_SyncPrunesOnlyMissingFiles ==
    [][\A y \in DOMAIN pc :
          (pc[y] = "sync_prune" /\ pc'[y] = "done" /\ result'[y].ok) =>
              \A id \in DOMAIN cache.prompts :
                  Exists(vault, config.root_exists, id) => id \in DOMAIN cache'.prompts]_vars

\* C30 for a save whose file the sync pass found in its scan.
C30_ScannedSaveSurvives ==
    \A s, y \in DOMAIN pc :
        (/\ SaveAndSyncDone(s, y)
         /\ ~ScanMissedSave(s, y)
         /\ Exists(vault, config.root_exists, loc[s].file_path)) =>
            loc[s].file_path \in DOMAIN cache.prompts


\* --------------------------------------------------------------------------
\* C31
\* --------------------------------------------------------------------------

\* Two sync passes, in flight together, have both committed; y scanned the
\* vault as it is now and s scanned it before the last change.
StaleAndFreshDone(s, y) ==
    /\ s # y
    /\ \A r \in {s, y} : pc[r] = "done" /\ loc[r].cmd = "sync_vault" /\ result[r].ok
    /\ pre[y].vault = vault
    /\ pre[s].vault # vault
    /\ loc[s].scanned # loc[y].scanned

\* C31: after two overlapping sync passes with a filesystem change between
\* their scans have both committed, the cache holds the rows of the later
\* scan.
C31_LaterScanWins ==
    \A s, y \in DOMAIN pc :
        StaleAndFreshDone(s, y) =>
            DOMAIN cache.prompts = {f.file_path : f \in loc[y].scanned}


\* --------------------------------------------------------------------------
\* C32
\* --------------------------------------------------------------------------

\* Two saves without a previous path have returned; both were called for the
\* same target while no file of that name was in the vault.
SavedSameNewId(p, q) ==
    /\ p # q
    /\ \A r \in {p, q} : /\ pc[r] = "done"
                         /\ loc[r].cmd = "save_prompt"
                         /\ loc[r].previous_file_path = NULL
                         /\ loc[r].file_path # NULL
                         /\ ~Exists(pre[r].vault, config.root_exists, loc[r].file_path)
    /\ loc[p].file_path = loc[q].file_path

\* C32: of two concurrent saves without previous_id that target the same id,
\* not yet in the vault, at most one succeeds.
C32_AtMostOneCreates ==
    \A p, q \in DOMAIN pc :
        SavedSameNewId(p, q) => ~(result[p].ok /\ result[q].ok)

\* The file a creating save writes where none is.
CreatedFile(r) ==
    write_prompt_file(pre[r].vault, config.root_exists,
                      PromptFile(loc[r].file_path, loc[r].prompt.tags,
                                 loc[r].prompt.created, loc[r].prompt.text, NULL,
                                 loc[r].prompt.title, NULL),
                      config.frontmatter, Now, TRUE).vlt[loc[r].file_path]

\* C32, second half: when both have returned, the vault holds the file the
\* successful save wrote.
C32_WinnerNotOverwritten ==
    \A p, q \in DOMAIN pc :
        (SavedSameNewId(p, q) /\ result[p].ok /\ ~result[q].ok) =>
            vault[loc[p].file_path] = CreatedFile(p)

\* C32 for a save called once the other's file is in the vault: it fails
\* with the message "File name already exists" and writes nothing.
C32_LateSaveRefused ==
    \A p, q \in DOMAIN pc :
        (/\ p # q
         /\ \A r \in {p, q} : /\ pc[r] = "done"
                                /\ loc[r].cmd = "save_prompt"
                                /\ loc[r].previous_file_path = NULL
                                /\ loc[r].file_path # NULL
         /\ loc[p].file_path = loc[q].file_path
         /\ loc[p].wrote
         /\ Exists(pre[q].vault, config.root_exists, loc[q].file_path)) =>
            /\ result[q] = Err(DbError("Database", "File name already exists"))
            /\ ~loc[q].wrote


\* --------------------------------------------------------------------------
\* C33
\* --------------------------------------------------------------------------

\* A successful delete removed the file its id normalizes to.
DeleteRemovedFile(p) ==
    /\ Returned(p, "delete_prompt")
    /\ result[p].ok
    /\ DeleteTarget(p).ok
    /\ Exists(pre[p].vault, config.root_exists, DeleteTarget(p).val)
    /\ vault[DeleteTarget(p).val] = NoFile

\* C33: after a successful delete the cache has no row for the entry whose
\* file was removed, also when the id was given without the extension.
C33_DeletedFileHasNoRow ==
    \A p \in Procs :
        DeleteRemovedFile(p) => DeleteTarget(p).val \notin CachedIds(cache)

\* C33 for an id given in its normalized form.
C33_DeletedNormalizedIdHasNoRow ==
    \A p \in Procs :
        (DeleteRemovedFile(p) /\ DeleteTarget(p).val = loc[p].id) =>
            DeleteTarget(p).val \notin CachedIds(cache)


\* --------------------------------------------------------------------------
\* C34
\* --------------------------------------------------------------------------

\* What one pass of sync_vault's loop makes of the cache for the file at id:
\* the row upserted from the file as read, its associations replaced.
SyncEntry(db, vlt, root_exists, id, frontmatter_settings) ==
    LET file == read_prompt_file(vlt, root_exists, id, frontmatter_settings).val
        up == UPSERT_PROMPT(db, file.file_path, file.created, file.content,
                            file.title, file.file_path, file.file_hash)
    IN  InsertTags(DELETE_PROMPT_TAGS(up.db, file.file_path), file.file_path, file.tags).db

\* A save has succeeded and its file can be read back.
SavedAndReadable(p) ==
    /\ Returned(p, "save_prompt")
    /\ result[p].ok
    /\ read_prompt_file(vault, config.root_exists, loc[p].file_path, config.frontmatter).ok

\* C34: a sync_vault run right after a successful save changes neither the
\* saved entry's row nor its tag set.
C34_SaveEqualsSync ==
    \A p \in Procs :
        SavedAndReadable(p) =>
            LET id == loc[p].file_path
                synced == SyncEntry(cache, vault, config.root_exists, id, config.frontmatter)
            IN  /\ id \in CachedIds(cache)
                /\ synced.prompts[id] = cache.prompts[id]
                /\ TagsForPrompt(synced, id) = TagsForPrompt(cache, id)

\* C34, the tag set alone.
C34_SaveEqualsSyncTags ==
    \A p \in Procs :
        SavedAndReadable(p) =>
            LET id == loc[p].file_path
                synced == SyncEntry(cache, vault, config.root_exists, id, config.frontmatter)
            IN  TagsForPrompt(synced, id) = TagsForPrompt(cache, id)


\* C34 for tags given in normalized form: the tag set is the one a sync
\* would store.
C34_NormalizedTagsAgree ==
    \A p \in Procs :
        (SavedAndReadable(p) /\ FilterMapTags(loc[p].prompt.tags) = loc[p].prompt.tags) =>
            LET id == loc[p].file_path
                synced == SyncEntry(cache, vault, config.root_exists, id, config.frontmatter)
            IN  TagsForPrompt(synced, id) = TagsForPrompt(cache, id)


\* --------------------------------------------------------------------------
\* C35
\* --------------------------------------------------------------------------

\* A renaming save of a readable file has succeeded.
RenamedOk(p) ==
    /\ Returned(p, "save_prompt")
    /\ result[p].ok
    /\ IsRename(loc[p])
    /\ loc[p].previous_file_path \in DOMAIN pre[p].vault
    /\ pre[p].vault[loc[p].previous_file_path].kind = "text"

\* The keys the codec writes under any setting.
RecognizedKeys == CodecKeys \cup {"tags"}

\* C35: after a renaming save the new file holds every unrecognized
\* frontmatter key of the old file, with the same value.
C35_RenameCarriesKeys ==
    \A p \in Procs :
        RenamedOk(p) =>
            LET old == pre[p].vault[loc[p].previous_file_path].fm
                new == vault[loc[p].file_path].fm
            IN  \A k \in (DOMAIN old) \ RecognizedKeys :
                    k \in DOMAIN new /\ new[k] = old[k]

\* What a renaming save leaves at the new name: the file a save without a
\* previous path would have created there.
C35_RenamedFileIsFresh ==
    \A p \in Procs :
        RenamedOk(p) => vault[loc[p].file_path] = CreatedFile(p)


\* --------------------------------------------------------------------------
\* C36
\* --------------------------------------------------------------------------

\* The body of A was parsed and holds an opening fence line.
ParsedBlock(p) ==
    /\ Returned(p, "read_prompt_file")
    /\ result[p].ok
    /\ BlockStart(Lines(vault[A].body)) # 0

\* The block the renderer sees is closed.
RendererSeesClosedBlock(body) ==
    LET lines == Lines(body)
        start == BlockStart(lines)
    IN  start # 0 /\ BlockEnd(lines, start, FenceOf(lines[start])) # 0

\* C36: parser and renderer agree on the block's line range: rendering the
\* content the parser returned back into the body replaces the block's lines
\* by themselves and leaves every line of the body as it was.
C36_ParserAndRendererAgree ==
    \A p \in Procs :
        ParsedBlock(p) =>
            Lines(update_prompt_block(vault[A].body, loc[p].read.content))
                = Lines(vault[A].body)

\* C36 for a body whose block is closed before any second opening fence line.
C36_AgreeOnOneClosedBlock ==
    \A p \in Procs :
        (/\ ParsedBlock(p)
         /\ RendererSeesClosedBlock(vault[A].body)
         /\ ~OpensAgain(vault[A].body)) =>
            Lines(update_prompt_block(vault[A].body, loc[p].read.content))
                = Lines(vault[A].body)


\* --------------------------------------------------------------------------
\* C37
\* --------------------------------------------------------------------------

\* Every prompt_tags row refers to a prompts row and to a tags row.
ReferencesResolve(db) ==
    \A pt \in db.prompt_tags :
        /\ pt.prompt_id \in DOMAIN db.prompts
        /\ \E t \in db.tags : t.id = pt.tag_id

\* C37: through saves, deletions, duplications and syncs every prompt_tags
\* row, committed or inside an open transaction, refers to an existing
\* prompt and an existing tag; a deleted or pruned prompt leaves no
\* association behind.
C37_AssociationsResolve ==
    /\ ReferencesResolve(cache)
    /\ \A p \in Procs : ReferencesResolve(loc[p].tx)

\* A delete has removed a row that had tag associations.
C37_Witness ==
    \E p \in Procs :
        /\ Returned(p, "delete_prompt")
        /\ result[p].ok
        /\ loc[p].id \in CachedIds(pre[p].cache)
        /\ \E pt \in pre[p].cache.prompt_tags : pt.prompt_id = loc[p].id
        /\ loc[p].id \notin CachedIds(cache)


\* --------------------------------------------------------------------------
\* C38
\* --------------------------------------------------------------------------

\* A start has failed while creating the watcher or registering the watch.
StartFailedInNotify(p) ==
    /\ Returned(p, "start_vault_watch")
    /\ ~result[p].ok
    /\ result[p].err.msg = "notify"

\* C38: when start fails while creating the watcher or registering the
\* watch, the recorded watcher and path are the ones recorded at the call: a
\* watch active before is still alive and observing its path, and an empty
\* state is still empty.
C38_FailedStartKeepsState ==
    \A p \in Procs :
        StartFailedInNotify(p) =>
            /\ watcher_state.watcher = pre[p].watcher_state.watcher
            /\ watcher_state.path = pre[p].watcher_state.path
            /\ notify.watchers = pre[p].watchers
            /\ pre[p].watcher_state.watcher # NoWatcher =>
                  [id |-> watcher_state.watcher, path |-> watcher_state.path]
                      \in notify.watchers
            /\ pre[p].watcher_state.watcher = NoWatcher =>
                  (watcher_state.path = "NULL" /\ notify.watchers = {})

\* A start for another path failed while a watch was active, and the old
\* watcher has delivered a notification since the call.
C38_Witness ==
    \E p \in Procs :
        /\ StartFailedInNotify(p)
        /\ pre[p].watcher_state.watcher # NoWatcher
        /\ pre[p].watcher_state.path # loc[p].vault_path
        /\ watcher_state.last_emit > pre[p].watcher_state.last_emit


\* --------------------------------------------------------------------------
\* Overlapping start_vault_watch calls and watcher closures (SpecLocks)
\* --------------------------------------------------------------------------

\* The positions of a thread inside vault_watcher::start_vault_watch or the
\* closure, waiting for a mutex or holding one.
InsideWatcherCode ==
    {"lock_watcher", "lock_path", "locked", "watch", "install",
     "cb_lock", "cb_check", "cb_update", "cb_emit"}

\* While a thread is inside, some thread inside can take its next step.
SomeThreadCanStep ==
    (\E p \in DOMAIN pc : pc[p] \in InsideWatcherCode) => ENABLED LockStep

\* Each of the three mutexes has at most one holder.
OneHolderEach ==
    /\ Cardinality({p \in DOMAIN pc : pc[p] \in WatcherLockHolders}) <= 1
    /\ Cardinality({p \in DOMAIN pc : pc[p] \in PathLockHolders}) <= 1
    /\ Cardinality({p \in DOMAIN pc : pc[p] \in LastEmitLockHolders}) <= 1

\* The times stored in last_emit for any two notifications are at least
\* Debounce apart.
StampsApart ==
    \A k, l \in 1..Len(emitted) : k < l => emitted[l].stamp - emitted[k].stamp >= Debounce

\* A notification goes out at or after its stamp and before the next
\* notification is stamped.
EmittedUnderLock ==
    /\ \A k \in 1..Len(emitted) : emitted[k].stamp <= emitted[k].at
    /\ \A k, l \in 1..Len(emitted) : k < l => emitted[k].at <= emitted[l].stamp

\* C39 as stated: overlapping start calls and watcher closures never block
\* each other for good, and any two notifications go out at least Debounce
\* apart.
C39_NoDeadlockAndEmissionsApart ==
    /\ SomeThreadCanStep
    /\ NotificationsApart

\* C39 amended: overlapping start calls and watcher closures never block each
\* other for good (whenever a thread waits for or holds one of the mutexes,
\* some such thread can step), every mutex has one holder at most, the times
\* stored in last_emit for any two notifications are at least Debounce apart,
\* also across a replaced watcher, and each notification goes out between its
\* own stamp and the next one.
C39_NoDeadlockAndStampsApart ==
    /\ SomeThreadCanStep
    /\ OneHolderEach
    /\ StampsApart
    /\ EmittedUnderLock

\* One start holds both mutexes with its new watcher made while the other
\* start waits for the watcher mutex; one closure has stamped last_emit and
\* is about to emit while the other closure waits for last_emit.
C39_Witness ==
    \E p, q \in StartThreads, t, u \in CallbackThreads :
        /\ pc[p] = "install"
        /\ pc[q] = "lock_watcher"
        /\ pc[t] = "cb_emit"
        /\ pc[u] = "cb_lock"
        /\ watcher_state.last_emit = now

====
